---- MODULE Spec2Model ----
(***************************************************************************)
(* Authentication & session core of acme-shop-users-service:               *)
(* SessionService (Redis-backed sessions), JWTService (signed tokens),     *)
(* PasswordService (hash classification / verification) and AuthService    *)
(* (login / logout / refresh / validate).                                  *)
(*                                                                         *)
(* Time is counted in ticks of 12 hours, so the 24 h session lifetime and  *)
(* the 24 h default token lifetime are 2 ticks each.  Strings that the     *)
(* code builds character by character are sequences of one-character       *)
(* strings.                                                                *)
(***************************************************************************)
EXTENDS Integers, Sequences, FiniteSets, TLC

VARIABLES now, redis, userSessions, users, tokens, last, calls

vars == <<now, redis, userSessions, users, tokens, last, calls>>

-----------------------------------------------------------------------------
(* Bounds of the model.                                                    *)

MaxTime == 3

MaxTokens == 1

-----------------------------------------------------------------------------
(* Program constants.                                                      *)

sessionTTL == 2

jwtExpiration == 2

sessionIDLen == 24

sessionPrefix == <<"s", "e", "s", "s", "i", "o", "n", ":">>

letters ==
  <<"a", "b", "c", "d", "e", "f", "g", "h", "i", "j", "k", "l", "m",
    "n", "o", "p", "q", "r", "s", "t", "u", "v", "w", "x", "y", "z",
    "A", "B", "C", "D", "E", "F", "G", "H", "I", "J", "K", "L", "M",
    "N", "O", "P", "Q", "R", "S", "T", "U", "V", "W", "X", "Y", "Z",
    "0", "1", "2", "3", "4", "5", "6", "7", "8", "9">>

(* b[i] = letters[i % len(letters)] for i = 0 .. n-1 (Go indexes from 0).  *)
randomSessionString(n) ==
  [i \in 1..n |-> letters[((i - 1) % Len(letters)) + 1]]

generateSessionID == <<"s", "e", "s", "s", "-">> \o randomSessionString(sessionIDLen)

-----------------------------------------------------------------------------
(* Values the callers can supply.                                          *)

EmptySID == <<>>

OtherSID == <<"s", "e", "s", "s", "-", "o", "t", "h", "e", "r">>

SessionIDs == {generateSessionID, OtherSID, EmptySID}

UserIDs == {"u1", "u2", "u3"}

Emails == {"a@x.com", "b@x.com", "c@x.com", "nobody@x.com"}

Passwords == {"Secr3t!pw", "Wr0ng!pw"}

Salts == {"salt1", "salt2"}

(* Passwords of other lengths: empty, 5 bytes, 73 bytes; and the first 72  *)
(* bytes of the last.                                                      *)
LongPassword ==
  "aaaaaaaaaaaaaaaaaaaaaaaaaaaaaaaaaaaaaaaaaaaaaaaaaaaaaaaaaaaaaaaaaaaaaaaaa"

LongPasswordPrefix ==
  "aaaaaaaaaaaaaaaaaaaaaaaaaaaaaaaaaaaaaaaaaaaaaaaaaaaaaaaaaaaaaaaaaaaaaaaa"

AllPasswords == Passwords \cup {"", "short", LongPassword}

(* len([]byte(password)).                                                  *)
passwordLen(password) ==
  CASE password = "" -> 0
    [] password = "short" -> 5
    [] password = "Wr0ng!pw" -> 8
    [] password = "Secr3t!pw" -> 9
    [] password = LongPasswordPrefix -> 72
    [] password = LongPassword -> 73

(* The golang.org/x/crypto the binary is built with (go.mod is not among   *)
(* the sources): GenerateFromPassword either rejects a password of more    *)
(* than 72 bytes or hashes its first 72 bytes.                             *)
BcryptBuilds == {"rejects", "truncates"}

NoExpiry == -1

NoKey == [present |-> FALSE]

NoSession == [none |-> TRUE]

NoToken == [none |-> TRUE]

NoUser == [none |-> TRUE]

-----------------------------------------------------------------------------
(* The Redis client, as SessionService uses it.                            *)

sessionKey(sessionID) == sessionPrefix \o sessionID

SessionKeys == {sessionKey(id) : id \in SessionIDs}

(* SET key data [EX ttl]: go-redis sends an expiry only for ttl > 0; a     *)
(* plain SET leaves the key without one.                                   *)
redisSet(r, key, data, ttl, t) ==
  [r EXCEPT ![key] = [present |-> TRUE, data |-> data,
                      exp |-> IF ttl > 0 THEN t + ttl ELSE NoExpiry]]

redisDel(r, key) == [r EXCEPT ![key] = NoKey]

(* The keys whose expiry has passed at time t are gone.                    *)
redisExpire(r, t) ==
  [k \in DOMAIN r |->
     IF r[k].present /\ r[k].exp # NoExpiry /\ t > r[k].exp THEN NoKey ELSE r[k]]

-----------------------------------------------------------------------------
(* Session and its JSON form.                                              *)

jsonMarshal(s) ==
  [id |-> s.ID, user_id |-> s.UserID, email |-> s.Email, role |-> s.Role,
   created_at |-> s.CreatedAt, expires_at |-> s.ExpiresAt,
   ip_address |-> s.IPAddress, user_agent |-> s.UserAgent, active |-> s.Active]

JSONSessionFields ==
  {"id", "user_id", "email", "role", "created_at", "expires_at",
   "ip_address", "user_agent", "active"}

jsonUnmarshal(d) ==
  IF DOMAIN d = JSONSessionFields
  THEN [ok |-> TRUE,
        session |-> [ID |-> d.id, UserID |-> d.user_id, Email |-> d.email,
                     Role |-> d.role, CreatedAt |-> d.created_at,
                     ExpiresAt |-> d.expires_at, IPAddress |-> d.ip_address,
                     UserAgent |-> d.user_agent, Active |-> d.active]]
  ELSE [ok |-> FALSE, session |-> NoSession]

-----------------------------------------------------------------------------
(* SessionService.  Each operator is one method: it takes the store, the   *)
(* clock reading and the failing call, and returns the method's result     *)
(* together with the store it leaves.  Revoke also reports the session it  *)
(* wrote.                                                                  *)

SessionCreate(r, us, t, userID, email, role, ipAddress, userAgent, fault) ==
  LET sessionID == generateSessionID
      session == [ID |-> sessionID, UserID |-> userID, Email |-> email,
                  Role |-> role, CreatedAt |-> t, ExpiresAt |-> t + sessionTTL,
                  IPAddress |-> ipAddress, UserAgent |-> userAgent,
                  Active |-> TRUE]
      key == sessionKey(sessionID)
  IN  IF fault = "redis.Set"
      THEN [err |-> "redis error", session |-> NoSession, redis |-> r,
            userSessions |-> us, ignored |-> {}]
      ELSE [err |-> "nil", session |-> session,
            redis |-> redisSet(r, key, jsonMarshal(session), sessionTTL, t),
            userSessions |->
              IF fault = "redis.SAdd" THEN us
              ELSE [us EXCEPT ![userID] = @ \cup {sessionID}],
            ignored |-> {fault} \cap {"redis.SAdd"}]

(* Get without the check of the active flag.                               *)
SessionGet_NoActiveCheck(r, t, sessionID, fault) ==
  LET key == sessionKey(sessionID)
      decoded == jsonUnmarshal(r[key].data)
  IN  IF fault = "redis.Get"
        THEN [err |-> "redis error", session |-> NoSession]
      ELSE IF ~r[key].present
        THEN [err |-> "ErrSessionNotFound", session |-> NoSession]
      ELSE IF ~decoded.ok
        THEN [err |-> "ErrSessionInvalid", session |-> NoSession]
      ELSE IF t > decoded.session.ExpiresAt
        THEN [err |-> "ErrSessionExpired", session |-> NoSession]
      ELSE [err |-> "nil", session |-> decoded.session]

SessionGet(r, t, sessionID, fault) ==
  LET key == sessionKey(sessionID)
      decoded == jsonUnmarshal(r[key].data)
  IN  IF fault = "redis.Get"
        THEN [err |-> "redis error", session |-> NoSession]
      ELSE IF ~r[key].present
        THEN [err |-> "ErrSessionNotFound", session |-> NoSession]
      ELSE IF ~decoded.ok
        THEN [err |-> "ErrSessionInvalid", session |-> NoSession]
      ELSE IF t > decoded.session.ExpiresAt
        THEN [err |-> "ErrSessionExpired", session |-> NoSession]
      ELSE IF ~decoded.session.Active
        THEN [err |-> "ErrSessionInvalid", session |-> NoSession]
      ELSE [err |-> "nil", session |-> decoded.session]

(* Delete that reports a key DEL did not find.                             *)
SessionDelete_Strict(r, sessionID, fault) ==
  IF fault = "redis.Del"
  THEN [err |-> "redis error", redis |-> r]
  ELSE IF ~r[sessionKey(sessionID)].present
    THEN [err |-> "ErrSessionNotFound", redis |-> r]
  ELSE [err |-> "nil", redis |-> redisDel(r, sessionKey(sessionID))]

SessionDelete(r, sessionID, fault) ==
  IF fault = "redis.Del"
  THEN [err |-> "redis error", redis |-> r]
  ELSE [err |-> "nil", redis |-> redisDel(r, sessionKey(sessionID))]

SessionRefresh(r, t, sessionID, fault) ==
  LET got == SessionGet(r, t, sessionID, fault)
      session == [got.session EXCEPT !.ExpiresAt = t + sessionTTL]
  IN  IF got.err # "nil" THEN [err |-> got.err, redis |-> r]
      ELSE IF fault = "redis.Set" THEN [err |-> "redis error", redis |-> r]
      ELSE [err |-> "nil",
            redis |-> redisSet(r, sessionKey(sessionID), jsonMarshal(session),
                               sessionTTL, t)]

(* Revoke that writes the session back without clearing the active flag.   *)
SessionRevoke_KeepsActive(r, t, sessionID, fault) ==
  LET got == SessionGet(r, t, sessionID, fault)
      session == got.session
      ttl == got.session.ExpiresAt - t
  IN  IF got.err # "nil"
        THEN [err |-> got.err, redis |-> r, session |-> NoSession]
      ELSE IF fault = "redis.Set"
        THEN [err |-> "redis error", redis |-> r, session |-> NoSession]
      ELSE [err |-> "nil",
            redis |-> redisSet(r, sessionKey(sessionID), jsonMarshal(session),
                               ttl, t),
            session |-> session]

SessionRevoke(r, t, sessionID, fault) ==
  LET got == SessionGet(r, t, sessionID, fault)
      session == [got.session EXCEPT !.Active = FALSE]
      ttl == got.session.ExpiresAt - t
  IN  IF got.err # "nil"
        THEN [err |-> got.err, redis |-> r, session |-> NoSession]
      ELSE IF fault = "redis.Set"
        THEN [err |-> "redis error", redis |-> r, session |-> NoSession]
      ELSE [err |-> "nil",
            redis |-> redisSet(r, sessionKey(sessionID), jsonMarshal(session),
                               ttl, t),
            session |-> session]

(* The results of the Del calls are not looked at: when they fail the      *)
(* records and the index stay and the method still returns nil.            *)
SessionDeleteAllForUser(r, us, userID, fault) ==
  IF fault = "redis.SMembers"
  THEN [err |-> "redis error", redis |-> r, userSessions |-> us,
        ignored |-> {}]
  ELSE IF fault = "redis.Del"
  THEN [err |-> "nil", redis |-> r, userSessions |-> us,
        ignored |-> {"redis.Del"}]
  ELSE [err |-> "nil",
        redis |-> [k \in DOMAIN r |->
                     IF \E id \in us[userID] : k = sessionKey(id)
                     THEN NoKey ELSE r[k]],
        userSessions |-> [us EXCEPT ![userID] = {}],
        ignored |-> {}]

(* ListForUser that keeps the ids it could not Get in the index.           *)
SessionListForUser_NoPrune(r, us, t, userID, fault) ==
  LET alive == {id \in us[userID] : SessionGet(r, t, id, fault).err = "nil"}
  IN  IF fault = "redis.SMembers"
      THEN [err |-> "redis error", sessions |-> {}, userSessions |-> us,
            ignored |-> {}]
      ELSE [err |-> "nil",
            sessions |-> {SessionGet(r, t, id, fault).session : id \in alive},
            userSessions |-> us, ignored |-> {}]

(* The result of SRem is not looked at: when it fails the id stays in the  *)
(* index and the method goes on.                                           *)
SessionListForUser(r, us, t, userID, fault) ==
  LET alive == {id \in us[userID] : SessionGet(r, t, id, fault).err = "nil"}
  IN  IF fault = "redis.SMembers"
      THEN [err |-> "redis error", sessions |-> {}, userSessions |-> us,
            ignored |-> {}]
      ELSE IF fault = "redis.SRem" /\ alive # us[userID]
      THEN [err |-> "nil",
            sessions |-> {SessionGet(r, t, id, fault).session : id \in alive},
            userSessions |-> us, ignored |-> {"redis.SRem"}]
      ELSE [err |-> "nil",
            sessions |-> {SessionGet(r, t, id, fault).session : id \in alive},
            userSessions |-> [us EXCEPT ![userID] = alive], ignored |-> {}]

-----------------------------------------------------------------------------
(* PasswordService.  A hash string is described by what the code looks at  *)
(* (its first two characters, its length, whether it is all hex digits)    *)
(* and by what it is a digest of.                                          *)

NewPasswordService(enableLegacy) == [enableLegacy |-> enableLegacy]

hashMD5(text) ==
  [prefix |-> "", len |-> 32, hex |-> TRUE, digest |-> <<"md5", text>>]

hashSHA1(text) ==
  [prefix |-> "", len |-> 40, hex |-> TRUE, digest |-> <<"sha1", text>>]

(* The empty string.                                                       *)
EmptyHash == [prefix |-> "", len |-> 0, hex |-> TRUE, digest |-> <<>>]

(* bcrypt reads at most the first 72 bytes of the password.                *)
bcryptKey(password) ==
  IF passwordLen(password) > 72 THEN LongPasswordPrefix ELSE password

(* bcrypt.GenerateFromPassword with the salt it drew.                      *)
bcryptGenerate(password, salt, build) ==
  IF passwordLen(password) > 72 /\ build = "rejects"
  THEN [err |-> "bcrypt.ErrPasswordTooLong", hash |-> EmptyHash]
  ELSE [err |-> "nil",
        hash |-> [prefix |-> "$2", len |-> 60, hex |-> FALSE,
                  digest |-> <<"bcrypt", bcryptKey(password), salt>>]]

(* A comparison that reads the whole password.                             *)
bcryptCompare_NoTruncation(hash, password) ==
  /\ hash.prefix = "$2"
  /\ hash.len = 60
  /\ Len(hash.digest) = 3
  /\ hash.digest[1] = "bcrypt"
  /\ hash.digest[2] = password

(* bcrypt.CompareHashAndPassword(hash, password) = nil.                    *)
bcryptCompare(hash, password) ==
  /\ hash.prefix = "$2"
  /\ hash.len = 60
  /\ Len(hash.digest) = 3
  /\ hash.digest[1] = "bcrypt"
  /\ hash.digest[2] = bcryptKey(password)

isHexString(hash) == hash.hex

DetectHashType(hash) ==
  IF hash.len = 0 THEN ""
  ELSE IF hash.prefix = "$2" THEN "bcrypt"
  ELSE IF hash.len = 32 /\ isHexString(hash) THEN "md5"
  ELSE IF hash.len = 40 /\ isHexString(hash) THEN "sha1"
  ELSE ""

CheckPasswordMD5(password, hash) == hashMD5(password) = hash

CheckPasswordSHA1(password, hash) == hashSHA1(password) = hash

CheckPassword(password, hash) ==
  LET hashType == DetectHashType(hash)
  IN  IF hashType = "bcrypt"
        THEN [valid |-> bcryptCompare(hash, password), needsMigration |-> FALSE]
      ELSE IF hashType = "md5"
        THEN [valid |-> CheckPasswordMD5(password, hash), needsMigration |-> TRUE]
      ELSE IF hashType = "sha1"
        THEN [valid |-> CheckPasswordSHA1(password, hash), needsMigration |-> TRUE]
      ELSE [valid |-> FALSE, needsMigration |-> FALSE]

(* HashPassword passes the password to bcrypt as it is and returns         *)
(* bcrypt's error, if any.                                                 *)
HashPassword(password, salt, build) ==
  LET generated == bcryptGenerate(password, salt, build)
  IN  IF generated.err # "nil"
      THEN [err |-> generated.err, hash |-> EmptyHash]
      ELSE [err |-> "nil", hash |-> generated.hash]

(* A migration that rehashes with the legacy-weak digest.                  *)
MigratePasswordHash_Weak(password, salt, build) ==
  [err |-> "nil", hash |-> hashMD5(password)]

MigratePasswordHash(password, salt, build) == HashPassword(password, salt, build)

-----------------------------------------------------------------------------
(* PostgresUserStore: the rows of the users table.                         *)

(* Migration 4 adds users.password_hash_type and fills it from the hash.   *)
add_password_hash_type_column(hash) ==
  IF hash.prefix = "$2" THEN "bcrypt"
  ELSE IF hash.len = 32 THEN "md5"
  ELSE IF hash.len = 40 THEN "sha1"
  ELSE "unknown"

UserRow(id, email, role, active, hash) ==
  [ID |-> id, Email |-> email, Role |-> role, Active |-> active,
   Deleted |-> FALSE, PasswordHash |-> hash,
   PasswordHashType |-> add_password_hash_type_column(hash)]

(* A row scan that does not read the active column.                        *)
UserOf_AlwaysActive(row) ==
  [ID |-> row.ID, Email |-> row.Email, Role |-> row.Role, Active |-> TRUE]

UserOf(row) ==
  [ID |-> row.ID, Email |-> row.Email, Role |-> row.Role, Active |-> row.Active]

GetByEmail(db, email, fault) ==
  LET found == {id \in DOMAIN db : db[id].Email = email /\ ~db[id].Deleted}
  IN  IF fault = "db.GetByEmail" THEN [err |-> "db error", user |-> NoUser]
      ELSE IF found = {} THEN [err |-> "ErrNotFound", user |-> NoUser]
      ELSE [err |-> "nil", user |-> UserOf(db[CHOOSE id \in found : TRUE])]

GetByID(db, id, fault) ==
  IF fault = "db.GetByID" THEN [err |-> "db error", user |-> NoUser]
  ELSE IF id \notin DOMAIN db \/ db[id].Deleted
    THEN [err |-> "ErrNotFound", user |-> NoUser]
  ELSE [err |-> "nil", user |-> UserOf(db[id])]

GetPasswordHash(db, id, fault) ==
  IF fault = "db.GetPasswordHash" THEN [err |-> "db error"]
  ELSE IF id \notin DOMAIN db \/ db[id].Deleted THEN [err |-> "ErrNotFound"]
  ELSE [err |-> "nil", hash |-> db[id].PasswordHash]

(* An UPDATE that matches no row.                                          *)
UpdatePasswordHash_Dropped(db, id, hash, fault) == db

UpdatePasswordHash(db, id, hash, fault) ==
  IF fault = "db.UpdatePasswordHash" \/ id \notin DOMAIN db THEN db
  ELSE [db EXCEPT ![id].PasswordHash = hash]

(* UPDATE users SET last_login_at: the column is not one of the modelled   *)
(* columns (id, email, role, active, deleted_at, password_hash,            *)
(* password_hash_type), so the rows read by the other queries are the same *)
(* whether or not it fails.                                                *)
UpdateLastLogin(db, id, t, fault) == db

-----------------------------------------------------------------------------
(* UserService: the calls that write the password hash.                    *)

UserChangePassword(db, id, oldPassword, newPassword, salt, build, fault) ==
  LET currentHash == GetPasswordHash(db, id, fault)
      newHash == HashPassword(newPassword, salt, build)
  IN  IF currentHash.err # "nil" THEN [err |-> currentHash.err, users |-> db]
      ELSE IF ~CheckPassword(oldPassword, currentHash.hash).valid
        THEN [err |-> "ErrPasswordMismatch", users |-> db]
      ELSE IF newHash.err # "nil" THEN [err |-> newHash.err, users |-> db]
      ELSE IF fault = "db.UpdatePasswordHash"
        THEN [err |-> "db error", users |-> db]
      ELSE [err |-> "nil",
            users |-> UpdatePasswordHash(db, id, newHash.hash, fault)]

UserMigratePassword(db, cfg, id, password, salt, fault) ==
  LET newHash == MigratePasswordHash(password, salt, cfg.Bcrypt)
  IN  IF ~cfg.EnablePasswordMigration THEN [err |-> "nil", users |-> db]
      ELSE IF newHash.err # "nil" THEN [err |-> newHash.err, users |-> db]
      ELSE IF fault = "db.UpdatePasswordHash"
        THEN [err |-> "db error", users |-> db]
      ELSE [err |-> "nil",
            users |-> UpdatePasswordHash(db, id, newHash.hash, fault)]

-----------------------------------------------------------------------------
(* PasswordMigrator: it writes the users table directly.                   *)

detectHashType(hash) ==
  IF hash.len >= 4 /\ hash.prefix = "$2" THEN "bcrypt"
  ELSE IF hash.len = 32 THEN "md5"
  ELSE IF hash.len = 40 THEN "sha1"
  ELSE "unknown"

(* utils.HashPassword is the bcrypt hash of the shared library.            *)
MigrateUserPassword(db, userID, password, salt, build, fault) ==
  LET newHash == bcryptGenerate(password, salt, build)
  IN  IF newHash.err # "nil" THEN [err |-> newHash.err, users |-> db]
      ELSE IF fault = "db.Exec" THEN [err |-> "db error", users |-> db]
      ELSE [err |-> "nil",
            users |-> IF userID \in DOMAIN db
                      THEN [db EXCEPT ![userID].PasswordHash = newHash.hash,
                                      ![userID].PasswordHashType = "bcrypt"]
                      ELSE db]

(* stale: the users whose last_login_at is NULL or before the cutoff.      *)
ForcePasswordReset(db, stale, fault) ==
  IF fault = "db.Exec" THEN [err |-> "db error", users |-> db]
  ELSE [err |-> "nil",
        users |-> [u \in DOMAIN db |->
                     IF /\ db[u].PasswordHashType \in {"md5", "sha1"}
                        /\ u \in stale
                        /\ ~db[u].Deleted
                     THEN [db[u] EXCEPT !.PasswordHash = EmptyHash,
                                        !.PasswordHashType = "reset_required"]
                     ELSE db[u]]]

(* The result of the UPDATE is not looked at.                              *)
ValidateHashType(db, userID, fault) ==
  LET detectedType == detectHashType(db[userID].PasswordHash)
  IN  IF fault = "db.Query" \/ userID \notin DOMAIN db
        THEN [err |-> "db error", type |-> "", users |-> db]
      ELSE [err |-> "nil", type |-> detectedType,
            users |-> IF db[userID].PasswordHashType # detectedType
                         /\ fault # "db.Exec"
                      THEN [db EXCEPT ![userID].PasswordHashType = detectedType]
                      ELSE db]

-----------------------------------------------------------------------------
(* JWTService.  A token string is its header, its claims object and the    *)
(* HMAC of both under the key that signed it.                              *)

jwtSecret == "acme-secret-key"

jwtIssuer == "acme-users-service"

NilTime == -1

NilClaims == [nil |-> TRUE]

HMAC(key, header, payload) == [key |-> key, header |-> header, payload |-> payload]

(* json.Marshal of JWTClaims: session_id is omitempty, and so are the      *)
(* registered claims that are nil.                                         *)
claimsJSON(c) ==
  LET always == [iss |-> c.Issuer, sub |-> c.Subject, user_id |-> c.UserID,
                 email |-> c.Email, role |-> c.Role]
      keys == DOMAIN always
                \cup (IF c.IssuedAt # NilTime THEN {"iat"} ELSE {})
                \cup (IF c.ExpiresAt # NilTime THEN {"exp"} ELSE {})
                \cup (IF c.NotBefore # NilTime THEN {"nbf"} ELSE {})
                \cup (IF c.SessionID # EmptySID THEN {"session_id"} ELSE {})
  IN  [k \in keys |->
         CASE k = "iat" -> c.IssuedAt
           [] k = "exp" -> c.ExpiresAt
           [] k = "nbf" -> c.NotBefore
           [] k = "session_id" -> c.SessionID
           [] OTHER -> always[k]]

(* json.Unmarshal into JWTClaims: a key that is absent leaves the zero     *)
(* value of its field.                                                     *)
claimsFromJSON(m) ==
  LET str(k) == IF k \in DOMAIN m THEN m[k] ELSE ""
      time(k) == IF k \in DOMAIN m THEN m[k] ELSE NilTime
  IN  [Issuer |-> str("iss"), Subject |-> str("sub"),
       IssuedAt |-> time("iat"), ExpiresAt |-> time("exp"),
       NotBefore |-> time("nbf"),
       UserID |-> str("user_id"), Email |-> str("email"), Role |-> str("role"),
       SessionID |-> IF "session_id" \in DOMAIN m THEN m["session_id"]
                     ELSE EmptySID]

SignedString(claims, secret) ==
  [header |-> "HS256", payload |-> claimsJSON(claims),
   sig |-> HMAC(secret, "HS256", claimsJSON(claims))]

IsJWT(tokenString) == DOMAIN tokenString = {"header", "payload", "sig"}

(* A token that does not carry the session id.                             *)
GenerateToken_NoSessionID(user, sessionID, t) ==
  SignedString([Issuer |-> jwtIssuer, Subject |-> user.ID, IssuedAt |-> t,
                ExpiresAt |-> t + jwtExpiration, NotBefore |-> t,
                UserID |-> user.ID, Email |-> user.Email, Role |-> user.Role,
                SessionID |-> EmptySID],
               jwtSecret)

GenerateToken(user, sessionID, t) ==
  SignedString([Issuer |-> jwtIssuer, Subject |-> user.ID, IssuedAt |-> t,
                ExpiresAt |-> t + jwtExpiration, NotBefore |-> t,
                UserID |-> user.ID, Email |-> user.Email, Role |-> user.Role,
                SessionID |-> sessionID],
               jwtSecret)

(* A parser that validates exp and nbf before it verifies the signature.   *)
ParseWithClaims_ClaimsFirst(tokenString, secret, t) ==
  IF DOMAIN tokenString # {"header", "payload", "sig"}
    THEN {"ErrTokenMalformed"}
  ELSE IF tokenString.header \notin {"HS256", "HS384", "HS512"}
    THEN {"ErrTokenUnverifiable"}
  ELSE LET c == claimsFromJSON(tokenString.payload)
           errs == (IF c.ExpiresAt # NilTime /\ ~(t < c.ExpiresAt)
                      THEN {"ErrTokenExpired"} ELSE {})
                   \cup (IF c.NotBefore # NilTime /\ t < c.NotBefore
                           THEN {"ErrTokenNotValidYet"} ELSE {})
       IN  IF errs # {} THEN errs
           ELSE IF tokenString.sig
                     # HMAC(secret, tokenString.header, tokenString.payload)
             THEN {"ErrTokenSignatureInvalid"}
           ELSE {}

(* jwt.ParseWithClaims: decode, check the method and the signature, then   *)
(* validate exp and nbf.  The result is the set of the errors it joins.    *)
ParseWithClaims(tokenString, secret, t) ==
  IF ~IsJWT(tokenString) THEN {"ErrTokenMalformed"}
  ELSE IF tokenString.header \notin {"HS256", "HS384", "HS512"}
    THEN {"ErrTokenUnverifiable"}
  ELSE IF tokenString.sig
            # HMAC(secret, tokenString.header, tokenString.payload)
    THEN {"ErrTokenSignatureInvalid"}
  ELSE LET c == claimsFromJSON(tokenString.payload)
       IN  (IF c.ExpiresAt # NilTime /\ ~(t < c.ExpiresAt)
              THEN {"ErrTokenExpired"} ELSE {})
           \cup (IF c.NotBefore # NilTime /\ t < c.NotBefore
                   THEN {"ErrTokenNotValidYet"} ELSE {})

JWTValidateToken(tokenString, t) ==
  LET errs == ParseWithClaims(tokenString, jwtSecret, t)
  IN  IF errs # {}
      THEN IF "ErrTokenExpired" \in errs
           THEN [err |-> "ErrExpiredToken", claims |-> NilClaims]
           ELSE [err |-> "ErrInvalidToken", claims |-> NilClaims]
      ELSE [err |-> "nil", claims |-> claimsFromJSON(tokenString.payload)]

(* JWTService.RefreshToken writes claims.IssuedAt through the pointer that *)
(* ValidateToken returned: a nil pointer there is a run-time panic.        *)
JWTRefreshToken(tokenString, t) ==
  LET v == JWTValidateToken(tokenString, t)
  IN  IF v.err # "nil" /\ v.err # "ErrExpiredToken"
        THEN [err |-> v.err, token |-> NoToken]
      ELSE IF v.claims = NilClaims
        THEN [err |-> "panic: nil pointer dereference", token |-> NoToken]
      ELSE [err |-> "nil",
            token |-> SignedString([v.claims EXCEPT !.IssuedAt = t,
                                                    !.ExpiresAt = t + jwtExpiration],
                                   jwtSecret)]

-----------------------------------------------------------------------------
(* AuthService.                                                            *)

(* Login that rehashes on every successful check, legacy hash or not.      *)
AuthLogin_AlwaysRehashes(db, r, us, t, cfg, req, salt, fault) ==
  LET fail(e, db1, ign) ==
        [err |-> e, token |-> NoToken, session |-> NoSession, users |-> db1,
         redis |-> r, userSessions |-> us, ignored |-> ign,
         migrated |-> db1 # db]
      byEmail == GetByEmail(db, req.Email, fault)
      user == byEmail.user
      stored == GetPasswordHash(db, user.ID, fault)
      checked == CheckPassword(req.Password, stored.hash)
      migrates == checked.valid /\ cfg.EnablePasswordMigration
      newHash == MigratePasswordHash(req.Password, salt, cfg.Bcrypt)
      migrated ==
        IF migrates /\ newHash.err = "nil"
        THEN UpdatePasswordHash(db, user.ID, newHash.hash, fault)
        ELSE db
      ign1 == IF ~migrates THEN {}
              ELSE IF newHash.err # "nil" THEN {newHash.err}
              ELSE {fault} \cap {"db.UpdatePasswordHash"}
      created == SessionCreate(r, us, t, user.ID, user.Email, user.Role,
                               req.IPAddress, req.UserAgent, fault)
  IN  IF byEmail.err = "ErrNotFound" THEN fail("ErrInvalidCredentials", db, {})
      ELSE IF byEmail.err # "nil" THEN fail(byEmail.err, db, {})
      ELSE IF ~user.Active THEN fail("ErrUserInactive", db, {})
      ELSE IF stored.err # "nil" THEN fail(stored.err, db, {})
      ELSE IF ~checked.valid THEN fail("ErrInvalidCredentials", db, {})
      ELSE IF created.err # "nil" THEN fail(created.err, migrated, ign1)
      ELSE [err |-> "nil",
            token |-> GenerateToken(user, created.session.ID, t),
            session |-> created.session,
            users |-> UpdateLastLogin(migrated, user.ID, t, fault),
            redis |-> created.redis,
            userSessions |-> created.userSessions,
            ignored |-> ign1 \cup created.ignored
                          \cup ({fault} \cap {"db.UpdateLastLogin"}),
            migrated |-> migrated # db]

(* Login that returns the failure of a migration or last-login write.      *)
AuthLogin_StrictWrites(db, r, us, t, cfg, req, salt, fault) ==
  LET fail(e, db1, ign) ==
        [err |-> e, token |-> NoToken, session |-> NoSession, users |-> db1,
         redis |-> r, userSessions |-> us, ignored |-> ign,
         migrated |-> db1 # db]
      byEmail == GetByEmail(db, req.Email, fault)
      user == byEmail.user
      stored == GetPasswordHash(db, user.ID, fault)
      checked == CheckPassword(req.Password, stored.hash)
      migrates == checked.needsMigration /\ cfg.EnablePasswordMigration
      newHash == MigratePasswordHash(req.Password, salt, cfg.Bcrypt)
      migrated ==
        IF migrates /\ newHash.err = "nil"
        THEN UpdatePasswordHash(db, user.ID, newHash.hash, fault)
        ELSE db
      ign1 == IF ~migrates THEN {}
              ELSE IF newHash.err # "nil" THEN {newHash.err}
              ELSE {fault} \cap {"db.UpdatePasswordHash"}
      created == SessionCreate(r, us, t, user.ID, user.Email, user.Role,
                               req.IPAddress, req.UserAgent, fault)
  IN  IF byEmail.err = "ErrNotFound" THEN fail("ErrInvalidCredentials", db, {})
      ELSE IF byEmail.err # "nil" THEN fail(byEmail.err, db, {})
      ELSE IF ~user.Active THEN fail("ErrUserInactive", db, {})
      ELSE IF stored.err # "nil" THEN fail(stored.err, db, {})
      ELSE IF ~checked.valid THEN fail("ErrInvalidCredentials", db, {})
      ELSE IF ign1 # {} THEN fail("write failed", db, {})
      ELSE IF created.err # "nil" THEN fail(created.err, migrated, ign1)
      ELSE IF fault = "db.UpdateLastLogin"
        THEN fail("db error", migrated, ign1)
      ELSE [err |-> "nil",
            token |-> GenerateToken(user, created.session.ID, t),
            session |-> created.session,
            users |-> UpdateLastLogin(migrated, user.ID, t, fault),
            redis |-> created.redis,
            userSessions |-> created.userSessions,
            ignored |-> ign1 \cup created.ignored
                          \cup ({fault} \cap {"db.UpdateLastLogin"}),
            migrated |-> migrated # db]

AuthLogin(db, r, us, t, cfg, req, salt, fault) ==
  LET fail(e, db1, ign) ==
        [err |-> e, token |-> NoToken, session |-> NoSession, users |-> db1,
         redis |-> r, userSessions |-> us, ignored |-> ign,
         migrated |-> db1 # db]
      byEmail == GetByEmail(db, req.Email, fault)
      user == byEmail.user
      stored == GetPasswordHash(db, user.ID, fault)
      checked == CheckPassword(req.Password, stored.hash)
      migrates == checked.needsMigration /\ cfg.EnablePasswordMigration
      newHash == MigratePasswordHash(req.Password, salt, cfg.Bcrypt)
      migrated ==
        IF migrates /\ newHash.err = "nil"
        THEN UpdatePasswordHash(db, user.ID, newHash.hash, fault)
        ELSE db
      ign1 == IF ~migrates THEN {}
              ELSE IF newHash.err # "nil" THEN {newHash.err}
              ELSE {fault} \cap {"db.UpdatePasswordHash"}
      created == SessionCreate(r, us, t, user.ID, user.Email, user.Role,
                               req.IPAddress, req.UserAgent, fault)
  IN  IF byEmail.err = "ErrNotFound" THEN fail("ErrInvalidCredentials", db, {})
      ELSE IF byEmail.err # "nil" THEN fail(byEmail.err, db, {})
      ELSE IF ~user.Active THEN fail("ErrUserInactive", db, {})
      ELSE IF stored.err # "nil" THEN fail(stored.err, db, {})
      ELSE IF ~checked.valid THEN fail("ErrInvalidCredentials", db, {})
      ELSE IF created.err # "nil" THEN fail(created.err, migrated, ign1)
      ELSE [err |-> "nil",
            token |-> GenerateToken(user, created.session.ID, t),
            session |-> created.session,
            users |-> UpdateLastLogin(migrated, user.ID, t, fault),
            redis |-> created.redis,
            userSessions |-> created.userSessions,
            ignored |-> ign1 \cup created.ignored
                          \cup ({fault} \cap {"db.UpdateLastLogin"}),
            migrated |-> migrated # db]

AuthLogout(r, sessionID, fault) == SessionDelete(r, sessionID, fault)

AuthLogoutAll(r, us, userID, fault) ==
  SessionDeleteAllForUser(r, us, userID, fault)

(* ValidateToken that trusts the token alone.                              *)
AuthValidateToken_TokenOnly(r, t, token, fault) ==
  LET v == JWTValidateToken(token, t)
  IN  IF v.err # "nil" THEN [err |-> v.err, claims |-> NilClaims]
      ELSE [err |-> "nil", claims |-> v.claims]

AuthValidateToken(r, t, token, fault) ==
  LET v == JWTValidateToken(token, t)
      got == SessionGet(r, t, v.claims.SessionID, fault)
  IN  IF v.err # "nil" THEN [err |-> v.err, claims |-> NilClaims]
      ELSE IF v.claims.SessionID # EmptySID /\ got.err # "nil"
        THEN [err |-> got.err, claims |-> NilClaims]
      ELSE [err |-> "nil", claims |-> v.claims]

(* RefreshToken that re-issues from the claims without asking the session  *)
(* store.                                                                  *)
AuthRefreshToken_TokenOnly(db, r, t, token, fault) ==
  LET fail(e, r1) == [err |-> e, token |-> NoToken, redis |-> r1]
      v == JWTValidateToken(token, t)
      byID == GetByID(db, v.claims.UserID, fault)
  IN  IF v.err # "nil" /\ v.err # "ErrExpiredToken" THEN fail(v.err, r)
      ELSE IF v.claims = NilClaims
        THEN fail("panic: nil pointer dereference", r)
      ELSE IF byID.err # "nil" THEN fail(byID.err, r)
      ELSE [err |-> "nil",
            token |-> GenerateToken(byID.user, v.claims.SessionID, t),
            redis |-> r]

(* RefreshToken that loads the user before it extends the session.         *)
AuthRefreshToken_LoadsUserFirst(db, r, t, token, fault) ==
  LET fail(e, r1) == [err |-> e, token |-> NoToken, redis |-> r1]
      v == JWTValidateToken(token, t)
      got == SessionGet(r, t, v.claims.SessionID, fault)
      session == got.session
      byID == GetByID(db, v.claims.UserID, fault)
      refreshed == SessionRefresh(r, t, session.ID, fault)
  IN  IF v.err # "nil" /\ v.err # "ErrExpiredToken" THEN fail(v.err, r)
      ELSE IF v.claims = NilClaims
        THEN fail("panic: nil pointer dereference", r)
      ELSE IF got.err # "nil" THEN fail(got.err, r)
      ELSE IF byID.err # "nil" THEN fail(byID.err, r)
      ELSE IF refreshed.err # "nil" THEN fail(refreshed.err, r)
      ELSE [err |-> "nil",
            token |-> GenerateToken(byID.user, session.ID, t),
            redis |-> refreshed.redis]

(* claims is nil when ValidateToken returned ErrExpiredToken, and the      *)
(* handler reads claims.SessionID next.                                    *)
AuthRefreshToken(db, r, t, token, fault) ==
  LET fail(e, r1) == [err |-> e, token |-> NoToken, redis |-> r1]
      v == JWTValidateToken(token, t)
      got == SessionGet(r, t, v.claims.SessionID, fault)
      session == got.session
      refreshed == SessionRefresh(r, t, session.ID, fault)
      byID == GetByID(db, v.claims.UserID, fault)
  IN  IF v.err # "nil" /\ v.err # "ErrExpiredToken" THEN fail(v.err, r)
      ELSE IF v.claims = NilClaims
        THEN fail("panic: nil pointer dereference", r)
      ELSE IF got.err # "nil" THEN fail(got.err, r)
      ELSE IF refreshed.err # "nil" THEN fail(refreshed.err, r)
      ELSE IF byID.err # "nil" THEN fail(byID.err, refreshed.redis)
      ELSE [err |-> "nil",
            token |-> GenerateToken(byID.user, session.ID, t),
            redis |-> refreshed.redis]

AuthGetSessions(r, us, t, userID, fault) ==
  SessionListForUser(r, us, t, userID, fault)

AuthRevokeSession(r, t, sessionID, fault) == SessionRevoke(r, t, sessionID, fault)

-----------------------------------------------------------------------------
(* The state machine.  last is the most recent call: the operation, its    *)
(* input and what it returned.  Time passing is not a call.                *)

(* The defaults of the feature flags, on a build whose bcrypt rejects long *)
(* passwords.                                                              *)
config ==
  [EnablePasswordMigration |-> TRUE, EnableLegacyAuth |-> FALSE,
   Bcrypt |-> "rejects"]

Configs ==
  [EnablePasswordMigration : BOOLEAN, EnableLegacyAuth : BOOLEAN,
   Bcrypt : BcryptBuilds]

IPs == {"10.0.0.1"}

UserAgents == {"curl"}

attackerKey == "attacker-key"

GarbageToken == [raw |-> "invalid-token"]

Forged(token) ==
  [token EXCEPT !.sig = HMAC(attackerKey, token.header, token.payload)]

(* What a client can present: a token it was given, a copy of one signed   *)
(* with another key, or a string that is no token; and the session id the  *)
(* service generates or another one.                                       *)
ClientTokens == tokens \cup {Forged(tok) : tok \in tokens} \cup {GarbageToken}

ClientSessionIDs == {generateSessionID, OtherSID}

Keep(held, token) ==
  IF Cardinality(held) < MaxTokens THEN held \cup {token} ELSE held

(* ignored: the failures the call met and did not return.                  *)
Called(op, in, err, ignored, token, session) ==
  [op |-> op, in |-> in, err |-> err, ignored |-> ignored, token |-> token,
   session |-> session]

(* The requests in progress: each is served by its own goroutine, which   *)
(* is idle or stands between two calls of a handler, holding the handler's *)
(* local variables.                                                        *)
Procs == {"p1", "p2"}

Idle == [pc |-> "idle"]

NoCalls == [p \in Procs |-> Idle]

(* The users table at start: an active account with a legacy-weak hash,    *)
(* an active one with a current hash and an inactive one with a            *)
(* legacy-strong hash, all of the same password.                           *)
InitUsers ==
  [u \in UserIDs |->
     CASE u = "u1" ->
            UserRow("u1", "a@x.com", "customer", TRUE, hashMD5("Secr3t!pw"))
       [] u = "u2" ->
            UserRow("u2", "b@x.com", "admin", TRUE,
                    bcryptGenerate("Secr3t!pw", "salt1", "rejects").hash)
       [] OTHER ->
            UserRow("u3", "c@x.com", "customer", FALSE,
                    hashSHA1("Secr3t!pw"))]

Init ==
  /\ now = 0
  /\ redis = [k \in SessionKeys |-> NoKey]
  /\ userSessions = [u \in UserIDs |-> {}]
  /\ users = InitUsers
  /\ tokens = {}
  /\ last = Called("init", <<>>, "nil", {}, NoToken, NoSession)
  /\ calls = NoCalls

Tick ==
  /\ now < MaxTime
  /\ now' = now + 1
  /\ redis' = redisExpire(redis, now + 1)
  /\ UNCHANGED <<userSessions, users, tokens, last, calls>>

Create ==
  \E u \in UserIDs, ip \in IPs, ua \in UserAgents,
     fault \in {"none", "redis.Set", "redis.SAdd"} :
    LET res == SessionCreate(redis, userSessions, now, u, users[u].Email,
                             users[u].Role, ip, ua, fault)
    IN  /\ redis' = res.redis
        /\ userSessions' = res.userSessions
        /\ last' = Called("Create", u, res.err, res.ignored, NoToken,
                          res.session)
        /\ UNCHANGED <<now, users, tokens, calls>>

Get ==
  \E id \in ClientSessionIDs, fault \in {"none", "redis.Get"} :
    LET res == SessionGet(redis, now, id, fault)
    IN  /\ last' = Called("Get", id, res.err, {}, NoToken, res.session)
        /\ UNCHANGED <<now, redis, userSessions, users, tokens, calls>>

Refresh ==
  \E id \in ClientSessionIDs, fault \in {"none", "redis.Get", "redis.Set"} :
    LET res == SessionRefresh(redis, now, id, fault)
    IN  /\ redis' = res.redis
        /\ last' = Called("Refresh", id, res.err, {}, NoToken, NoSession)
        /\ UNCHANGED <<now, userSessions, users, tokens, calls>>

RevokeSession ==
  \E id \in ClientSessionIDs, fault \in {"none", "redis.Get", "redis.Set"} :
    LET res == AuthRevokeSession(redis, now, id, fault)
    IN  /\ redis' = res.redis
        /\ last' = Called("Revoke", id, res.err, {}, NoToken, res.session)
        /\ UNCHANGED <<now, userSessions, users, tokens, calls>>

Logout ==
  \E id \in ClientSessionIDs, fault \in {"none", "redis.Del"} :
    LET res == AuthLogout(redis, id, fault)
    IN  /\ redis' = res.redis
        /\ last' = Called("Delete", id, res.err, {}, NoToken, NoSession)
        /\ UNCHANGED <<now, userSessions, users, tokens, calls>>

LogoutAll ==
  \E u \in UserIDs, fault \in {"none", "redis.SMembers", "redis.Del"} :
    LET res == AuthLogoutAll(redis, userSessions, u, fault)
    IN  /\ redis' = res.redis
        /\ userSessions' = res.userSessions
        /\ last' = Called("DeleteAllForUser", u, res.err, res.ignored,
                          NoToken, NoSession)
        /\ UNCHANGED <<now, users, tokens, calls>>

(* What ListForUser returned, and the ids its Get calls failed on.         *)
Listed(userID, res, failed) ==
  [op |-> "ListForUser", in |-> userID, err |-> res.err,
   ignored |-> res.ignored, sessions |-> res.sessions, failed |-> failed]

GetSessions ==
  \E u \in UserIDs,
     fault \in {"none", "redis.SMembers", "redis.Get", "redis.SRem"} :
    LET res == AuthGetSessions(redis, userSessions, now, u, fault)
        failed == {id \in userSessions[u] :
                     SessionGet(redis, now, id, fault).err # "nil"}
    IN  /\ userSessions' = res.userSessions
        /\ last' = Listed(u, res, IF res.err = "nil" THEN failed ELSE {})
        /\ UNCHANGED <<now, redis, users, tokens, calls>>

LoginFaults ==
  {"db.GetByEmail", "db.GetPasswordHash", "db.UpdatePasswordHash",
   "db.UpdateLastLogin", "redis.Set", "redis.SAdd"}

LoginWith(faults) ==
  \E email \in Emails, password \in Passwords, ip \in IPs, ua \in UserAgents,
     salt \in Salts, fault \in faults :
    LET req == [Email |-> email, Password |-> password, IPAddress |-> ip,
                UserAgent |-> ua]
        res == AuthLogin(users, redis, userSessions, now, config, req, salt,
                         fault)
    IN  /\ users' = res.users
        /\ redis' = res.redis
        /\ userSessions' = res.userSessions
        /\ tokens' = IF res.err = "nil" THEN Keep(tokens, res.token) ELSE tokens
        /\ last' = Called("Login", req, res.err, res.ignored, res.token,
                          res.session)
        /\ UNCHANGED <<now, calls>>

Login == LoginWith({"none"})

LoginFaulty == LoginWith(LoginFaults)

ValidateToken ==
  \E token \in ClientTokens, fault \in {"none", "redis.Get"} :
    LET res == AuthValidateToken(redis, now, token, fault)
    IN  /\ last' = Called("ValidateToken", token, res.err, {}, NoToken,
                          NoSession)
        /\ UNCHANGED <<now, redis, userSessions, users, tokens, calls>>

RefreshToken ==
  \E token \in ClientTokens,
     fault \in {"none", "redis.Get", "redis.Set", "db.GetByID"} :
    LET res == AuthRefreshToken(users, redis, now, token, fault)
    IN  /\ redis' = res.redis
        /\ tokens' = IF res.err = "nil" THEN Keep(tokens, res.token) ELSE tokens
        /\ last' = Called("RefreshToken", token, res.err, {}, res.token,
                          NoSession)
        /\ UNCHANGED <<now, userSessions, users, calls>>

JWTValidate ==
  \E token \in ClientTokens :
    LET res == JWTValidateToken(token, now)
    IN  /\ last' = Called("JWT.ValidateToken", token, res.err, {}, NoToken,
                          NoSession)
        /\ UNCHANGED <<now, redis, userSessions, users, tokens, calls>>

JWTRefresh ==
  \E token \in ClientTokens :
    LET res == JWTRefreshToken(token, now)
    IN  /\ tokens' = IF res.err = "nil" THEN Keep(tokens, res.token) ELSE tokens
        /\ last' = Called("JWT.RefreshToken", token, res.err, {}, res.token,
                          NoSession)
        /\ UNCHANGED <<now, redis, userSessions, users, calls>>

(* JWTService.GenerateToken called on its own, as the unit tests do.       *)
Issue ==
  \E u \in UserIDs, id \in ClientSessionIDs :
    LET token == GenerateToken(UserOf(users[u]), id, now)
    IN  /\ tokens' = Keep(tokens, token)
        /\ last' = Called("JWT.GenerateToken", <<u, id>>, "nil", {}, token,
                          NoSession)
        /\ UNCHANGED <<now, redis, userSessions, users, calls>>

(* AuthService: the login, token and session calls of the v2 API.  The     *)
(* session index (LogoutAll, GetSessions) is exercised in SessionSpec.     *)
Next ==
  \/ Tick
  \/ Login
  \/ Logout
  \/ RevokeSession
  \/ ValidateToken
  \/ RefreshToken

Spec == Init /\ [][Next]_vars

(* SessionService alone.                                                   *)
SessionNext ==
  \/ Tick
  \/ Create
  \/ Get
  \/ Refresh
  \/ RevokeSession
  \/ Logout
  \/ LogoutAll
  \/ GetSessions

SessionSpec == Init /\ [][SessionNext]_vars

(* JWTService alone.                                                       *)
TokenNext ==
  \/ Tick
  \/ Issue
  \/ JWTValidate
  \/ JWTRefresh

TokenSpec == Init /\ [][TokenNext]_vars

(* Login with every failure of its collaborators; nothing in Login reads   *)
(* the clock except to stamp the session and the token.                    *)
LoginNext ==
  \/ Login
  \/ LoginFaulty
  \/ Logout

LoginSpec == Init /\ [][LoginNext]_vars

-----------------------------------------------------------------------------
(* The credential store: Login under every configuration, and the calls    *)
(* of UserService and PasswordMigrator that write the password hash of     *)
(* the account a@x.com.  The clock stands still.                           *)

(* The account's row as migration 4 left it: a legacy-weak or a            *)
(* legacy-strong hash of a password of 9 or of 73 bytes.                   *)
LegacyHashes ==
  {hashMD5(p) : p \in {"Secr3t!pw", LongPassword}}
    \cup {hashSHA1(p) : p \in {"Secr3t!pw", LongPassword}}

CredentialInit ==
  /\ now = 0
  /\ redis = [k \in SessionKeys |-> NoKey]
  /\ userSessions = [u \in UserIDs |-> {}]
  /\ users \in {[InitUsers EXCEPT !["u1"] =
                   UserRow("u1", "a@x.com", "customer", TRUE, h)] :
                h \in LegacyHashes}
  /\ tokens = {}
  /\ last = Called("init", <<>>, "nil", {}, NoToken, NoSession)
  /\ calls = NoCalls

CredentialPasswords == {"Secr3t!pw", "Wr0ng!pw", LongPassword}

(* The salt bcrypt draws in these calls.                                   *)
CredentialSalts == {"salt2"}

LoginConfigured ==
  \E cfg \in Configs, password \in CredentialPasswords, salt \in CredentialSalts,
     fault \in {"none", "db.UpdatePasswordHash", "db.UpdateLastLogin"} :
    LET req == [Email |-> "a@x.com", Password |-> password,
                IPAddress |-> "10.0.0.1", UserAgent |-> "curl"]
        res == AuthLogin(users, redis, userSessions, now, cfg, req, salt,
                         fault)
    IN  /\ users' = res.users
        /\ redis' = res.redis
        /\ userSessions' = res.userSessions
        /\ tokens' = IF res.err = "nil" THEN Keep(tokens, res.token) ELSE tokens
        /\ last' = Called("Login",
                          [req |-> req, cfg |-> cfg, migrated |-> res.migrated],
                          res.err, res.ignored, res.token, res.session)
        /\ UNCHANGED <<now, calls>>

(* A call that returns an error only.                                      *)
Wrote(op, in, err) == [op |-> op, in |-> in, err |-> err]

ChangePassword ==
  \E oldPassword \in CredentialPasswords, newPassword \in AllPasswords,
     salt \in CredentialSalts, build \in BcryptBuilds,
     fault \in {"none", "db.GetPasswordHash", "db.UpdatePasswordHash"} :
    LET res == UserChangePassword(users, "u1", oldPassword, newPassword, salt,
                                  build, fault)
    IN  /\ users' = res.users
        /\ last' = Wrote("ChangePassword",
                         [id |-> "u1", oldPassword |-> oldPassword,
                          password |-> newPassword], res.err)
        /\ UNCHANGED <<now, redis, userSessions, tokens, calls>>

MigratePassword ==
  \E cfg \in Configs, password \in AllPasswords, salt \in CredentialSalts,
     fault \in {"none", "db.UpdatePasswordHash"} :
    LET res == UserMigratePassword(users, cfg, "u1", password, salt, fault)
    IN  /\ users' = res.users
        /\ last' = Wrote("MigratePassword",
                         [id |-> "u1", password |-> password, cfg |-> cfg],
                         res.err)
        /\ UNCHANGED <<now, redis, userSessions, tokens, calls>>

MigratorMigrate ==
  \E password \in AllPasswords, salt \in CredentialSalts, build \in BcryptBuilds,
     fault \in {"none", "db.Exec"} :
    LET res == MigrateUserPassword(users, "u1", password, salt, build, fault)
    IN  /\ users' = res.users
        /\ last' = Wrote("MigrateUserPassword",
                         [id |-> "u1", password |-> password], res.err)
        /\ UNCHANGED <<now, redis, userSessions, tokens, calls>>

MigratorForceReset ==
  \E stale \in {{}, {"u1"}}, fault \in {"none", "db.Exec"} :
    LET res == ForcePasswordReset(users, stale, fault)
    IN  /\ users' = res.users
        /\ last' = Wrote("ForcePasswordReset", stale, res.err)
        /\ UNCHANGED <<now, redis, userSessions, tokens, calls>>

MigratorValidate ==
  \E fault \in {"none", "db.Query", "db.Exec"} :
    LET res == ValidateHashType(users, "u1", fault)
    IN  /\ users' = res.users
        /\ last' = Wrote("ValidateHashType", "u1", res.err)
        /\ UNCHANGED <<now, redis, userSessions, tokens, calls>>

CredentialNext ==
  \/ LoginConfigured
  \/ ChangePassword
  \/ MigratePassword
  \/ MigratorMigrate
  \/ MigratorForceReset
  \/ MigratorValidate

CredentialSpec == CredentialInit /\ [][CredentialNext]_vars

-----------------------------------------------------------------------------
(* PasswordService alone: its functions applied to every password and to   *)
(* every hash string, by what the code looks at in one.                    *)

HashStrings ==
  {hashMD5(p) : p \in Passwords} \cup {hashSHA1(p) : p \in Passwords}
    \cup {bcryptGenerate(p, salt, "truncates").hash :
            p \in AllPasswords, salt \in Salts}
    \cup {h \in [prefix : {"$2", ""}, len : {0, 3, 32, 40, 59, 60, 61},
                 hex : BOOLEAN, digest : {<<>>}] :
            /\ h.prefix = "$2" => (h.len >= 2 /\ ~h.hex)
            /\ h.len = 0 => h.hex}

Returned(op, in, out) == [op |-> op, in |-> in, err |-> "nil", out |-> out]

Classify ==
  \E hash \in HashStrings :
    /\ last' = Returned("DetectHashType", hash, DetectHashType(hash))
    /\ UNCHANGED <<now, redis, userSessions, users, tokens, calls>>

Verify ==
  \E enableLegacy \in BOOLEAN, password \in AllPasswords,
     hash \in HashStrings :
    /\ last' = Returned("CheckPassword",
                        [svc |-> NewPasswordService(enableLegacy),
                         password |-> password, hash |-> hash],
                        CheckPassword(password, hash))
    /\ UNCHANGED <<now, redis, userSessions, users, tokens, calls>>

Hash ==
  \E password \in AllPasswords, salt \in Salts, build \in BcryptBuilds :
    /\ last' = Returned("HashPassword",
                        [password |-> password, build |-> build],
                        HashPassword(password, salt, build))
    /\ UNCHANGED <<now, redis, userSessions, users, tokens, calls>>

Migrate ==
  \E password \in AllPasswords, salt \in Salts, build \in BcryptBuilds :
    /\ last' = Returned("MigratePasswordHash",
                        [password |-> password, build |-> build],
                        MigratePasswordHash(password, salt, build))
    /\ UNCHANGED <<now, redis, userSessions, users, tokens, calls>>

PasswordNext ==
  \/ Classify
  \/ Verify
  \/ Hash
  \/ Migrate

PasswordSpec == Init /\ [][PasswordNext]_vars

-----------------------------------------------------------------------------
(* Refresh and Revoke of one session by concurrent requests.  Each method  *)
(* is two store calls: the GET inside Get, then, after the clock has been  *)
(* read again, the SET of the changed session.  Another request can run    *)
(* between the two.                                                        *)

(* The second half of Refresh that writes the session it read back with    *)
(* only its expiry, as a hash of fields.                                   *)
RefreshWrite_ExpiryOnly(r, t, session, fault) ==
  IF fault = "redis.Set" THEN [err |-> "redis error", redis |-> r]
  ELSE [err |-> "nil",
        redis |-> redisSet(r, sessionKey(session.ID),
                           [expires_at |-> t + sessionTTL], sessionTTL, t)]

(* Refresh after its Get: session is what Get returned.                    *)
RefreshWrite(r, t, session, fault) ==
  IF fault = "redis.Set" THEN [err |-> "redis error", redis |-> r]
  ELSE [err |-> "nil",
        redis |-> redisSet(r, sessionKey(session.ID),
                           jsonMarshal([session EXCEPT
                                          !.ExpiresAt = t + sessionTTL]),
                           sessionTTL, t)]

(* Revoke after its Get.                                                   *)
RevokeWrite(r, t, session, fault) ==
  IF fault = "redis.Set" THEN [err |-> "redis error", redis |-> r]
  ELSE [err |-> "nil",
        redis |-> redisSet(r, sessionKey(session.ID),
                           jsonMarshal([session EXCEPT !.Active = FALSE]),
                           session.ExpiresAt - t, t)]

(* The session the requests work on, as Create stored it at time 0.        *)
RaceCreated ==
  SessionCreate([k \in SessionKeys |-> NoKey], [u \in UserIDs |-> {}], 0,
                "u1", "a@x.com", "customer", "10.0.0.1", "curl", "none")

RaceInit ==
  /\ now = 0
  /\ redis = RaceCreated.redis
  /\ userSessions = RaceCreated.userSessions
  /\ users = InitUsers
  /\ tokens = {}
  /\ last = Called("Create", "u1", "nil", {}, NoToken, RaceCreated.session)
  /\ calls = NoCalls

(* The first half of Refresh and of Revoke: Get.  When Get succeeds the    *)
(* request holds the session and goes on to its SET; when Get fails the    *)
(* method returns that error.                                              *)
Holding(p, op, got) ==
  IF got.err = "nil"
  THEN [calls EXCEPT ![p] = [pc |-> "set", op |-> op, session |-> got.session]]
  ELSE calls

Answered(op, id, got) ==
  IF got.err = "nil" THEN last
  ELSE Called(op, id, got.err, {}, NoToken, NoSession)

BeginRefresh ==
  \E p \in Procs, fault \in {"none", "redis.Get"} :
    LET id == RaceCreated.session.ID
        got == SessionGet(redis, now, id, fault)
    IN  /\ calls[p] = Idle
        /\ calls' = Holding(p, "Refresh", got)
        /\ last' = Answered("Refresh", id, got)
        /\ UNCHANGED <<now, redis, userSessions, users, tokens>>

BeginRevoke ==
  \E p \in Procs, fault \in {"none", "redis.Get"} :
    LET id == RaceCreated.session.ID
        got == SessionGet(redis, now, id, fault)
    IN  /\ calls[p] = Idle
        /\ calls' = Holding(p, "Revoke", got)
        /\ last' = Answered("Revoke", id, got)
        /\ UNCHANGED <<now, redis, userSessions, users, tokens>>

FinishRefresh ==
  \E p \in Procs, fault \in {"none", "redis.Set"} :
    LET res == RefreshWrite(redis, now, calls[p].session, fault)
    IN  /\ calls[p].pc = "set"
        /\ calls[p].op = "Refresh"
        /\ redis' = res.redis
        /\ calls' = [calls EXCEPT ![p] = Idle]
        /\ last' = Called("Refresh", calls[p].session.ID, res.err, {}, NoToken,
                          NoSession)
        /\ UNCHANGED <<now, userSessions, users, tokens>>

FinishRevoke ==
  \E p \in Procs, fault \in {"none", "redis.Set"} :
    LET res == RevokeWrite(redis, now, calls[p].session, fault)
    IN  /\ calls[p].pc = "set"
        /\ calls[p].op = "Revoke"
        /\ redis' = res.redis
        /\ calls' = [calls EXCEPT ![p] = Idle]
        /\ last' = Called("Revoke", calls[p].session.ID, res.err, {}, NoToken,
                          NoSession)
        /\ UNCHANGED <<now, userSessions, users, tokens>>

RaceNext ==
  \/ Tick
  \/ BeginRefresh
  \/ BeginRevoke
  \/ FinishRefresh
  \/ FinishRevoke

RaceSpec == RaceInit /\ [][RaceNext]_vars

-----------------------------------------------------------------------------
(* Two concurrent Logins of the account a@x.com, whose stored hash is a    *)
(* legacy one, with the password the hash was computed from and migration  *)
(* enabled.  A Login is the sequence of its store calls; the other Login   *)
(* can run between any two of them.  Nothing else writes the hash, and     *)
(* the store calls succeed.                                                *)

RaceRequest(password) ==
  [Email |-> "a@x.com", Password |-> password, IPAddress |-> "10.0.0.1",
   UserAgent |-> "curl"]

(* The salt bcrypt draws in each of the two requests.                      *)
saltOf(p) == IF p = "p1" THEN "salt1" ELSE "salt2"

LoginRaceInit ==
  \E password \in {"Secr3t!pw", LongPassword}, build \in BcryptBuilds :
    /\ now = 0
    /\ redis = [k \in SessionKeys |-> NoKey]
    /\ userSessions = [u \in UserIDs |-> {}]
    /\ users \in {[InitUsers EXCEPT !["u1"] =
                     UserRow("u1", "a@x.com", "customer", TRUE, h)] :
                  h \in {hashMD5(password), hashSHA1(password)}}
    /\ tokens = {}
    /\ last = Called("init", <<>>, "nil", {}, NoToken, NoSession)
    /\ calls = [p \in Procs |->
                  [pc |-> "start", op |-> "Login",
                   req |-> RaceRequest(password),
                   cfg |-> [EnablePasswordMigration |-> TRUE,
                            EnableLegacyAuth |-> TRUE, Bcrypt |-> build]]]

(* A Login that has returned.                                              *)
Returns(call, err, token, session) ==
  [pc |-> "done", op |-> "Login", req |-> call.req, cfg |-> call.cfg,
   err |-> err, token |-> token, session |-> session,
   needsMigration |-> IF "needsMigration" \in DOMAIN call
                      THEN call.needsMigration ELSE FALSE]

(* GetByEmail, the active check, GetPasswordHash and CheckPassword.        *)
LoginVerify ==
  \E p \in Procs :
    LET call == calls[p]
        byEmail == GetByEmail(users, call.req.Email, "none")
        user == byEmail.user
        stored == GetPasswordHash(users, user.ID, "none")
        checked == CheckPassword(call.req.Password, stored.hash)
        err == IF byEmail.err = "ErrNotFound" THEN "ErrInvalidCredentials"
               ELSE IF byEmail.err # "nil" THEN byEmail.err
               ELSE IF ~user.Active THEN "ErrUserInactive"
               ELSE IF stored.err # "nil" THEN stored.err
               ELSE IF ~checked.valid THEN "ErrInvalidCredentials"
               ELSE "nil"
    IN  /\ call.pc = "start"
        /\ calls' = [calls EXCEPT ![p] =
                       IF err # "nil"
                       THEN Returns(call, err, NoToken, NoSession)
                       ELSE [pc |-> "migrate", op |-> "Login",
                             req |-> call.req, cfg |-> call.cfg,
                             user |-> user,
                             needsMigration |-> checked.needsMigration]]
        /\ last' = IF err # "nil"
                   THEN Called("Login", call.req, err, {}, NoToken, NoSession)
                   ELSE last
        /\ UNCHANGED <<now, redis, userSessions, users, tokens>>

(* MigratePasswordHash and UpdatePasswordHash, when the check asked for    *)
(* them; a failure of the first is not returned.                           *)
LoginMigrate ==
  \E p \in Procs :
    LET call == calls[p]
        newHash == MigratePasswordHash(call.req.Password, saltOf(p),
                                       call.cfg.Bcrypt)
    IN  /\ call.pc = "migrate"
        /\ users' = IF /\ call.needsMigration
                       /\ call.cfg.EnablePasswordMigration
                       /\ newHash.err = "nil"
                    THEN UpdatePasswordHash(users, call.user.ID, newHash.hash,
                                            "none")
                    ELSE users
        /\ calls' = [calls EXCEPT ![p].pc = "session"]
        /\ UNCHANGED <<now, redis, userSessions, tokens, last>>

(* SessionService.Create, then GenerateToken and UpdateLastLogin, and the  *)
(* Login returns.                                                          *)
LoginCreateSession ==
  \E p \in Procs :
    LET call == calls[p]
        created == SessionCreate(redis, userSessions, now, call.user.ID,
                                 call.user.Email, call.user.Role,
                                 call.req.IPAddress, call.req.UserAgent,
                                 "none")
        token == GenerateToken(call.user, created.session.ID, now)
    IN  /\ call.pc = "session"
        /\ redis' = created.redis
        /\ userSessions' = created.userSessions
        /\ users' = UpdateLastLogin(users, call.user.ID, now, "none")
        /\ tokens' = Keep(tokens, token)
        /\ calls' = [calls EXCEPT ![p] =
                       Returns(call, "nil", token, created.session)]
        /\ last' = Called("Login", call.req, "nil", {}, token, created.session)
        /\ UNCHANGED now

LoginRaceNext ==
  \/ LoginVerify
  \/ LoginMigrate
  \/ LoginCreateSession

LoginRaceSpec == LoginRaceInit /\ [][LoginRaceNext]_vars

-----------------------------------------------------------------------------
(* Properties.                                                             *)

(* C1: every successful Create returns an id that no earlier Create        *)
(* returned: the id is in no user's session index and no record is stored  *)
(* under it when Create is called, so Create overwrites no session.        *)
C1_CreateReturnsFreshID ==
  [][(now' = now /\ last'.op = "Create" /\ last'.err = "nil")
       => /\ ~redis[sessionKey(last'.session.ID)].present
          /\ \A u \in UserIDs : last'.session.ID \notin userSessions[u]]_vars

(* C2: in every reachable state, for every id, Get returns a session only  *)
(* if the record stored under the id has active = true and                 *)
(* now <= expires_at, and the session it returns is that record.           *)
C2_GetReturnsOnlyLive ==
  \A id \in SessionIDs, fault \in {"none", "redis.Get"} :
    LET got == SessionGet(redis, now, id, fault)
        rec == redis[sessionKey(id)]
    IN  got.err = "nil"
          => /\ rec.present
             /\ rec.data.active = TRUE
             /\ now <= rec.data.expires_at
             /\ got.session = jsonUnmarshal(rec.data).session

C2_Witness ==
  /\ last.op = "Get"
  /\ last.err = "nil"
  /\ last.session.Active
  /\ now > last.session.CreatedAt
  /\ now <= last.session.ExpiresAt

RegisteredUsers(email) ==
  {u \in UserIDs : users[u].Email = email /\ ~users[u].Deleted}

PasswordVerifies(req) ==
  \E u \in RegisteredUsers(req.Email) :
    CheckPassword(req.Password, users[u].PasswordHash).valid

(* C4: a Login whose password does not verify returns                      *)
(* ErrInvalidCredentials, whether the email is unknown or belongs to an    *)
(* active or to an inactive account (a failure of the database aside).     *)
C4_WrongPasswordIsInvalidCredentials ==
  (last.op = "Login" /\ ~PasswordVerifies(last.in) /\ last.err # "db error")
    => last.err = "ErrInvalidCredentials"

(* C5: Login with the correct password of an account whose active flag is  *)
(* false returns ErrUserInactive, no token and no session, and writes      *)
(* nothing, whichever later call of the handler would have failed.         *)
C5_InactiveWithCorrectPassword ==
  \A email \in Emails, password \in Passwords, salt \in Salts,
     fault \in (LoginFaults \cup {"none"}) \ {"db.GetByEmail"} :
    LET req == [Email |-> email, Password |-> password,
                IPAddress |-> "10.0.0.1", UserAgent |-> "curl"]
        res == AuthLogin(users, redis, userSessions, now, config, req, salt,
                         fault)
    IN  (PasswordVerifies(req)
           /\ \A u \in RegisteredUsers(email) : ~users[u].Active)
          => /\ res.err = "ErrUserInactive"
             /\ res.token = NoToken
             /\ res.session = NoSession
             /\ res.users = users
             /\ res.redis = redis
             /\ res.userSessions = userSessions

C5_Witness ==
  /\ last.op = "Login"
  /\ PasswordVerifies(last.in)
  /\ \A u \in RegisteredUsers(last.in.Email) : ~users[u].Active
  /\ last.err = "ErrUserInactive"
  /\ last.token = NoToken
  /\ last.session = NoSession

(* The identity claims of a token.                                         *)
Identity(token) ==
  LET c == claimsFromJSON(token.payload)
  IN  <<c.UserID, c.Email, c.Role, c.SessionID>>

(* C6: for a correctly signed token whose exp is in the past,              *)
(* JWTService.ValidateToken returns ErrExpiredToken and                    *)
(* JWTService.RefreshToken returns a token that ValidateToken accepts and  *)
(* that has the same user id, email, role and session id; RefreshToken     *)
(* rejects every token that ValidateToken rejects for another reason.      *)
C6_RefreshAcceptsExpiredToken ==
  \A token \in ClientTokens :
    LET v == JWTValidateToken(token, now)
        r == JWTRefreshToken(token, now)
    IN  /\ (token \in tokens /\ claimsFromJSON(token.payload).ExpiresAt < now)
             => v.err = "ErrExpiredToken"
        /\ v.err = "ErrExpiredToken"
             => /\ r.err = "nil"
                /\ JWTValidateToken(r.token, now).err = "nil"
                /\ Identity(r.token) = Identity(token)
        /\ v.err \notin {"nil", "ErrExpiredToken"}
             => (r.err = v.err /\ r.token = NoToken)

(* C7: AuthService.RefreshToken of a correctly signed token that is valid  *)
(* or only expired, whose session Get accepts, succeeds (no store call     *)
(* failing): the session's expires_at becomes now + sessionTTL and the new *)
(* token carries the session id of the old one.                            *)
C7_RefreshTokenSucceeds ==
  \A token \in tokens :
    LET v == JWTValidateToken(token, now)
        sid == claimsFromJSON(token.payload).SessionID
        res == AuthRefreshToken(users, redis, now, token, "none")
    IN  (v.err \in {"nil", "ErrExpiredToken"}
           /\ SessionGet(redis, now, sid, "none").err = "nil")
          => /\ res.err = "nil"
             /\ res.redis[sessionKey(sid)].data.expires_at = now + sessionTTL
             /\ claimsFromJSON(res.token.payload).SessionID = sid

C9_RevokedStaysInvalid ==
  (last.op = "Revoke" /\ last.err = "nil" /\ now < last.session.ExpiresAt)
    => SessionGet(redis, now, last.in, "none").err = "ErrSessionInvalid"

C9_Witness ==
  /\ last.op = "Revoke"
  /\ last.err = "nil"
  /\ now > last.session.CreatedAt
  /\ now < last.session.ExpiresAt
  /\ SessionGet(redis, now, last.in, "none").err = "ErrSessionInvalid"

(* C10: when the most recent call is a successful Delete(id), Get(id)      *)
(* returns ErrSessionNotFound; and in every state, for every id, Delete    *)
(* returns nil, Get after it returns ErrSessionNotFound, a second Delete   *)
(* returns nil and changes nothing, and Delete of an id that has no record *)
(* changes nothing.                                                        *)
C10_DeleteThenNotFound ==
  /\ (last.op = "Delete" /\ last.err = "nil")
       => SessionGet(redis, now, last.in, "none").err = "ErrSessionNotFound"
  /\ \A id \in ClientSessionIDs :
       LET d1 == SessionDelete(redis, id, "none")
           d2 == SessionDelete(d1.redis, id, "none")
       IN  /\ d1.err = "nil"
           /\ SessionGet(d1.redis, now, id, "none").err = "ErrSessionNotFound"
           /\ d2.err = "nil"
           /\ d2.redis = d1.redis
           /\ ~redis[sessionKey(id)].present => d1.redis = redis

C10_Witness ==
  /\ last.op = "Delete"
  /\ last.err = "nil"
  /\ ~redis[sessionKey(last.in)].present
  /\ \E u \in UserIDs : last.in \in userSessions[u]

(* C11: when the most recent call is a LogoutAll(userID) that returned     *)
(* nil, the user's session index is empty and Get succeeds on no session   *)
(* of that user.                                                           *)
C11_LogoutAllKillsUserSessions ==
  (last.op = "DeleteAllForUser" /\ last.err = "nil")
    => /\ userSessions[last.in] = {}
       /\ \A id \in ClientSessionIDs :
            LET got == SessionGet(redis, now, id, "none")
            IN  got.err = "nil" => got.session.UserID # last.in


(* ----------------------------------------------------------------------- *)
(* Login against a legacy hash                                              *)
(* ----------------------------------------------------------------------- *)

LoginWrites == {"none", "db.UpdatePasswordHash", "db.UpdateLastLogin"}

LoginRequest(email, password) ==
  [Email |-> email, Password |-> password, IPAddress |-> "10.0.0.1",
   UserAgent |-> "curl"]

(* The account a login of email with password is made against: active,     *)
(* and the password verifies against its stored hash.                      *)
Authenticates(email, password, u) ==
  /\ u \in RegisteredUsers(email)
  /\ users[u].Active
  /\ CheckPassword(password, users[u].PasswordHash).valid

IsLegacy(hash) == DetectHashType(hash) \in {"md5", "sha1"}

(* What C12 promises of a login whose collaborators all answer.            *)
LegacyLoginMigrates(cfg, email, password, salt, u) ==
  LET res == AuthLogin(users, redis, userSessions, now, cfg,
                       LoginRequest(email, password), salt, "none")
      hash == res.users[u].PasswordHash
  IN  /\ res.err = "nil"
      /\ res.token # NoToken
      /\ res.session # NoSession
      /\ DetectHashType(hash) = "bcrypt"
      /\ CheckPassword(password, hash) = [valid |-> TRUE, needsMigration |-> FALSE]

C13_BestEffortWritesNeverFailLogin ==
  \A cfg \in Configs, email \in Emails, password \in CredentialPasswords,
     salt \in CredentialSalts, fault \in LoginWrites :
   \A u \in RegisteredUsers(email) :
    Authenticates(email, password, u)
      => LET res == AuthLogin(users, redis, userSessions, now, cfg,
                              LoginRequest(email, password), salt, fault)
         IN  /\ res.err = "nil"
             /\ res.token # NoToken
             /\ res.session # NoSession
             /\ SessionGet(res.redis, now, res.session.ID, "none").err = "nil"

(* A login has just succeeded although one of its best-effort writes       *)
(* failed.                                                                 *)
C13_Witness ==
  /\ last.op = "Login"
  /\ last.err = "nil"
  /\ last.ignored # {}
  /\ last.token # NoToken
  /\ last.session # NoSession


(* ----------------------------------------------------------------------- *)
(* Password hashing and verification                                        *)
(* ----------------------------------------------------------------------- *)

(* C14: with the legacy-support flag off, Verify returns (false, false)    *)
(* for every hash that classifies as md5 or sha1 and for every password,   *)
(* the one the hash was computed from included.                            *)
C14_LegacyDisabledRejects ==
  ( /\ last.op = "CheckPassword"
    /\ ~last.in.svc.enableLegacy
    /\ IsLegacy(last.in.hash) )
    => last.out = [valid |-> FALSE, needsMigration |-> FALSE]

(* C15: Verify returns needsMigration = true exactly when it returns       *)
(* valid = true and the hash does not classify as bcrypt; a wrong password *)
(* against a legacy hash yields (false, false).                            *)
C15_NeedsMigrationIffValidLegacy ==
  last.op = "CheckPassword"
    => ( last.out.needsMigration
           <=> ( /\ last.out.valid
                 /\ DetectHashType(last.in.hash) # "bcrypt" ) )

(* C16: Classify maps 32 hex characters to md5, 40 hex characters to sha1, *)
(* exactly 60 characters beginning with $2 to bcrypt, and every other      *)
(* string, a $2-prefixed one of another length included, to unknown.       *)
C16_ClassifyMapping ==
  last.op = "DetectHashType"
    => LET hash == last.in
       IN  last.out =
             IF hash.len = 32 /\ isHexString(hash) THEN "md5"
             ELSE IF hash.len = 40 /\ isHexString(hash) THEN "sha1"
             ELSE IF hash.len = 60 /\ hash.prefix = "$2" THEN "bcrypt"
             ELSE ""

C17_HashTypeFollowsHash ==
  \A u \in DOMAIN users :
    LET derived == DetectHashType(users[u].PasswordHash)
        stored == users[u].PasswordHashType
    IN  IF derived \in {"md5", "sha1", "bcrypt"}
          THEN stored = derived
          ELSE stored \notin {"md5", "sha1", "bcrypt"}

(* The input error Hash has to return for a password.                      *)
PasswordError(password) ==
  IF passwordLen(password) = 0 THEN "ErrPasswordEmpty"
  ELSE IF passwordLen(password) < 8 THEN "ErrPasswordTooShort"
  ELSE IF passwordLen(password) > 72 THEN "ErrPasswordTooLong"
  ELSE "nil"

(* C18: Hash fails with ErrPasswordEmpty, ErrPasswordTooShort (under 8) or *)
(* ErrPasswordTooLong (over 72), and a call of ChangePassword,             *)
(* MigratePassword or the migrator with such a password fails (or, with    *)
(* migration disabled, does nothing) and leaves the users table as it was. *)
C18_RejectedPasswordNeverStored ==
  [][ /\ \A password \in AllPasswords, salt \in Salts, build \in BcryptBuilds :
           PasswordError(password) # "nil"
             => HashPassword(password, salt, build)
                  = [err |-> PasswordError(password), hash |-> EmptyHash]
      /\ ( /\ last'.op \in {"ChangePassword", "MigratePassword",
                            "MigrateUserPassword"}
           /\ PasswordError(last'.in.password) # "nil" )
           => /\ users' = users
              /\ \/ last'.err # "nil"
                 \/ /\ last'.op = "MigratePassword"
                    /\ ~last'.in.cfg.EnablePasswordMigration ]_vars


(* ----------------------------------------------------------------------- *)
(* Token validation failures                                                *)
(* ----------------------------------------------------------------------- *)

(* The token decodes and its signature is the service's.                   *)
SignatureVerifies(tokenString) ==
  /\ IsJWT(tokenString)
  /\ tokenString.sig = HMAC(jwtSecret, tokenString.header, tokenString.payload)

(* C20: ValidateToken of a token that does not decode or whose signature   *)
(* does not verify fails with ErrInvalidToken, also when its exp is in the *)
(* past; ErrExpiredToken is returned only for a token whose signature      *)
(* verifies and whose exp has passed.                                      *)
C20_ValidateFailureKinds ==
  last.op = "JWT.ValidateToken"
    => /\ ~SignatureVerifies(last.in) => last.err = "ErrInvalidToken"
       /\ last.err = "ErrExpiredToken"
            => /\ SignatureVerifies(last.in)
               /\ claimsFromJSON(last.in.payload).ExpiresAt # NilTime
               /\ claimsFromJSON(last.in.payload).ExpiresAt <= now

(* ValidateToken has answered ErrInvalidToken for a well-formed token with *)
(* a foreign signature whose exp has passed.                               *)
C20_Witness ==
  /\ last.op = "JWT.ValidateToken"
  /\ last.err = "ErrInvalidToken"
  /\ IsJWT(last.in)
  /\ ~SignatureVerifies(last.in)
  /\ claimsFromJSON(last.in.payload).ExpiresAt # NilTime
  /\ claimsFromJSON(last.in.payload).ExpiresAt <= now


(* ----------------------------------------------------------------------- *)
(* Tokens: issue, validate, refresh                                         *)
(* ----------------------------------------------------------------------- *)

(* The instants at which a token issued now is not yet expired.            *)
BeforeExpiry == {t \in now .. MaxTime + jwtExpiration : t < now + jwtExpiration}

(* C21: a token issued now for a user and a session id validates at every  *)
(* instant before its expiry, and the claims returned carry the user's id, *)
(* email and role and the session id, iat = nbf = the issue time and       *)
(* exp = the issue time + the configured expiration.                       *)
C21_ValidateReturnsIssuedClaims ==
  \A u \in UserIDs, id \in ClientSessionIDs, t \in BeforeExpiry :
    LET user == UserOf(users[u])
        res == JWTValidateToken(GenerateToken(user, id, now), t)
    IN  /\ res.err = "nil"
        /\ res.claims.UserID = user.ID
        /\ res.claims.Email = user.Email
        /\ res.claims.Role = user.Role
        /\ res.claims.SessionID = id
        /\ res.claims.IssuedAt = now
        /\ res.claims.NotBefore = now
        /\ res.claims.ExpiresAt = now + jwtExpiration

(* ValidateToken has accepted, after the clock moved, a token that         *)
(* GenerateToken issued.                                                   *)
C21_Witness ==
  /\ last.op = "JWT.ValidateToken"
  /\ last.err = "nil"
  /\ last.in \in tokens
  /\ claimsFromJSON(last.in.payload).IssuedAt < now
  /\ now < claimsFromJSON(last.in.payload).ExpiresAt


(* C22: RefreshToken never hands back the token it was given: the token    *)
(* it returns differs from its input.                                      *)
C22_RefreshReturnsNewToken ==
  (last.op = "JWT.RefreshToken" /\ last.err = "nil") => last.token # last.in


(* ----------------------------------------------------------------------- *)
(* Session records in the store                                             *)
(* ----------------------------------------------------------------------- *)

(* C23: the record Revoke has written is inactive, keeps the session's     *)
(* ExpiresAt, and leaves the store when the session expires: its store     *)
(* expiry is ExpiresAt (a TTL of the remaining lifetime), never later and  *)
(* never absent.                                                           *)
C23_RevokeKeepsRemainingTTL ==
  LET key == sessionKey(last.in)
      stored == jsonUnmarshal(redis[key].data).session
  IN  (last.op = "Revoke" /\ last.err = "nil" /\ redis[key].present)
        => /\ ~stored.Active
           /\ stored.ExpiresAt = last.session.ExpiresAt
           /\ redis[key].exp # NoExpiry
           /\ redis[key].exp <= stored.ExpiresAt


(* What C24 promises of a ListForUser call that has returned nil: the      *)
(* sessions returned are those of the index, each one live, and no id the  *)
(* call could not Get is in the index.                                     *)
ListedAndPruned ==
  /\ {s.ID : s \in last.sessions} = userSessions[last.in]
  /\ \A s \in last.sessions : s.Active
  /\ last.failed \cap userSessions[last.in] = {}

C25_CreateThenGet ==
  (last.op = "Create" /\ last.err = "nil" /\ now = last.session.CreatedAt)
    => LET got == SessionGet(redis, now, last.session.ID, "none")
       IN  /\ got.err = "nil"
           /\ got.session = last.session
           /\ got.session.UserID = last.in
           /\ got.session.Email = users[last.in].Email
           /\ got.session.Role = users[last.in].Role
           /\ got.session.IPAddress \in IPs
           /\ got.session.UserAgent \in UserAgents
           /\ got.session.Active
           /\ now < got.session.ExpiresAt
           /\ got.session.ExpiresAt = got.session.CreatedAt + sessionTTL
           /\ last.session.ID \in userSessions[last.in]


(* ----------------------------------------------------------------------- *)
(* Concurrent requests                                                      *)
(* ----------------------------------------------------------------------- *)

(* C26: while Refresh and Revoke calls on one session interleave, the      *)
(* stored record is absent or decodes to a complete session whose ID,      *)
(* UserID, Email, Role, CreatedAt, IPAddress and UserAgent are those       *)
(* Create wrote.                                                           *)
C26_RaceKeepsRecordWellFormed ==
  LET created == RaceCreated.session
      record == redis[sessionKey(created.ID)]
      decoded == jsonUnmarshal(record.data)
  IN  record.present
        => /\ decoded.ok
           /\ decoded.session.ID = created.ID
           /\ decoded.session.UserID = created.UserID
           /\ decoded.session.Email = created.Email
           /\ decoded.session.Role = created.Role
           /\ decoded.session.CreatedAt = created.CreatedAt
           /\ decoded.session.IPAddress = created.IPAddress
           /\ decoded.session.UserAgent = created.UserAgent

(* A Revoke has completed between the Get and the Set of a Refresh: the    *)
(* record is inactive and the Refresh still holds the active session it    *)
(* read.                                                                   *)
C26_Witness ==
  /\ \E p \in Procs :
       /\ calls[p].pc = "set"
       /\ calls[p].op = "Refresh"
       /\ calls[p].session.Active
  /\ last.op = "Revoke"
  /\ last.err = "nil"
  /\ redis[sessionKey(RaceCreated.session.ID)].present
  /\ ~jsonUnmarshal(redis[sessionKey(RaceCreated.session.ID)].data).session.Active


(* Both Logins have returned nil, and the stored hash of the account is a  *)
(* bcrypt hash that verifies the password they sent.                       *)
BothMigrated ==
  /\ \A p \in Procs : calls[p].err = "nil" /\ calls[p].token # NoToken
  /\ \A p \in Procs : \A u \in RegisteredUsers(calls[p].req.Email) :
       /\ DetectHashType(users[u].PasswordHash) = "bcrypt"
       /\ CheckPassword(calls[p].req.Password, users[u].PasswordHash)
            = [valid |-> TRUE, needsMigration |-> FALSE]

C28_EveryRecordExpires ==
  \A k \in SessionKeys :
    redis[k].present
      => /\ redis[k].exp # NoExpiry
         /\ redis[k].exp <= now + sessionTTL


(* C29: Refresh and Revoke of an id for which Get fails return the error   *)
(* Get returns and leave the store as it is; on a revoked session that     *)
(* error is ErrSessionInvalid, for a second Revoke and for a Refresh.      *)
C29_RefreshRevokeFailAsGet ==
  \A id \in ClientSessionIDs, fault \in {"none", "redis.Get"} :
    LET got == SessionGet(redis, now, id, fault)
        refreshed == SessionRefresh(redis, now, id, fault)
        revoked == SessionRevoke(redis, now, id, fault)
        record == redis[sessionKey(id)]
        decoded == jsonUnmarshal(record.data)
    IN  /\ got.err # "nil"
             => /\ refreshed.err = got.err
                /\ refreshed.redis = redis
                /\ revoked.err = got.err
                /\ revoked.redis = redis
        /\ (fault = "none" /\ record.present /\ decoded.ok
              /\ ~decoded.session.Active)
             => /\ refreshed.err = "ErrSessionInvalid"
                /\ revoked.err = "ErrSessionInvalid"


(* ----------------------------------------------------------------------- *)
(* What Login writes                                                        *)
(* ----------------------------------------------------------------------- *)

(* The Login of a request under a configuration, in the current state.     *)
LoginOutcome(cfg, email, password, salt, fault) ==
  AuthLogin(users, redis, userSessions, now, cfg,
            LoginRequest(email, password), salt, fault)

(* Login has changed the stored hash of u only if u is the account of the  *)
(* request, the password verified against a legacy hash and migration is   *)
(* enabled; the new hash is then a bcrypt hash of that password.           *)
WritesOnlyOnMigration(cfg, email, password, res, u) ==
  res.users[u].PasswordHash # users[u].PasswordHash
    => /\ u \in RegisteredUsers(email)
       /\ CheckPassword(password, users[u].PasswordHash).valid
       /\ IsLegacy(users[u].PasswordHash)
       /\ cfg.EnablePasswordMigration
       /\ CheckPassword(password, res.users[u].PasswordHash)
            = [valid |-> TRUE, needsMigration |-> FALSE]

(* C30, as stated: Login changes the stored hash only when the password    *)
(* verified, the hash is a legacy one and migration is enabled; with       *)
(* migration disabled, a bcrypt hash, or a Login that failed, the stored   *)
(* hash is the one before.                                                 *)
C30_LoginHashFrame_AsStated ==
  \A cfg \in Configs, email \in Emails, password \in Passwords,
     salt \in CredentialSalts, fault \in LoginFaults \cup {"none"} :
    LET res == LoginOutcome(cfg, email, password, salt, fault)
    IN  \A u \in UserIDs :
          /\ WritesOnlyOnMigration(cfg, email, password, res, u)
          /\ res.err # "nil"
               => res.users[u].PasswordHash = users[u].PasswordHash

(* C30, amended: the same, except that "failed" means failed before the    *)
(* migration step (unknown account, inactive account, wrong password, a    *)
(* failed read); a Login whose session creation fails after it has         *)
(* already written the migrated hash.                                      *)
C30_LoginHashFrame ==
  \A cfg \in Configs, email \in Emails, password \in Passwords,
     salt \in CredentialSalts, fault \in LoginFaults \cup {"none"} :
    LET res == LoginOutcome(cfg, email, password, salt, fault)
    IN  \A u \in UserIDs :
          /\ WritesOnlyOnMigration(cfg, email, password, res, u)
          /\ res.err \in {"ErrInvalidCredentials", "ErrUserInactive", "db error"}
               => res.users[u].PasswordHash = users[u].PasswordHash

(* A Login of the account with the bcrypt hash has succeeded and the hash  *)
(* is the one the account started with.                                    *)
C30_Witness ==
  /\ last.op = "Login"
  /\ last.err = "nil"
  /\ last.in.Email = "b@x.com"
  /\ DetectHashType(users["u2"].PasswordHash) = "bcrypt"
  /\ users["u2"].PasswordHash = InitUsers["u2"].PasswordHash
  /\ DetectHashType(users["u1"].PasswordHash) = "bcrypt"

-----------------------------------------------------------------------------
(* CachedUserStore over RedisUserCache and PostgresUserStore.  In          *)
(* CacheSpec the Redis keyspace is the user cache: one key per user id.    *)

userCachePrefix == "user:"

(* REDIS_TTL, fifteen minutes, rounded up to the resolution of the clock.  *)
userCacheTTL == 1

userCacheKey(id) == userCachePrefix \o id

UserCacheKeys == {userCacheKey(id) : id \in UserIDs}

userJSON(user) ==
  [json |-> "user", id |-> user.ID, email |-> user.Email, role |-> user.Role,
   active |-> user.Active]

userFromJSON(d) ==
  [ID |-> d.id, Email |-> d.email, Role |-> d.role, Active |-> d.active]

(* RedisUserCache.Get: a missing key is a miss and no error.               *)
CacheGet(r, id, fault) ==
  IF fault = "cache.Get" THEN [err |-> "redis error", user |-> NoUser]
  ELSE IF ~r[userCacheKey(id)].present THEN [err |-> "nil", user |-> NoUser]
  ELSE [err |-> "nil", user |-> userFromJSON(r[userCacheKey(id)].data)]

CacheSet(r, t, user, fault) ==
  IF fault = "cache.Set" THEN [err |-> "redis error", redis |-> r]
  ELSE [err |-> "nil",
        redis |-> redisSet(r, userCacheKey(user.ID), userJSON(user),
                           userCacheTTL, t)]

CacheInvalidate(r, id, fault) ==
  IF fault = "cache.Invalidate" THEN [err |-> "redis error", redis |-> r]
  ELSE [err |-> "nil", redis |-> redisDel(r, userCacheKey(id))]

(* The UPDATE statement of PostgresUserStore.Update, for a request that    *)
(* sets the active flag: it changes the row that is not deleted, and       *)
(* changes no row otherwise.                                               *)
UpdateExec(db, id, active, fault) ==
  IF fault = "db.Update" THEN [err |-> "db error", users |-> db]
  ELSE IF db[id].Deleted THEN [err |-> "nil", users |-> db]
  ELSE [err |-> "nil", users |-> [db EXCEPT ![id].Active = active]]

(* CachedUserStore.GetByID run alone: the cached user on a hit; on a miss  *)
(* or a failed cache read the row of the store, which it then caches.      *)
CachedGetByID(db, r, t, id, fault) ==
  LET hit == CacheGet(r, id, fault)
      row == GetByID(db, id, fault)
  IN  IF hit.err = "nil" /\ hit.user # NoUser
        THEN [err |-> "nil", user |-> hit.user, redis |-> r]
      ELSE IF row.err # "nil"
        THEN [err |-> row.err, user |-> NoUser, redis |-> r]
      ELSE [err |-> "nil", user |-> row.user,
            redis |-> CacheSet(r, t, row.user, fault).redis]

CacheIDs == {"u1"}

CacheInit ==
  /\ now = 0
  /\ redis = [k \in UserCacheKeys |-> NoKey]
  /\ userSessions = [u \in UserIDs |-> {}]
  /\ users = InitUsers
  /\ tokens = {}
  /\ last = [op |-> "init", in |-> "", err |-> "nil", user |-> NoUser,
             updated |-> [id \in CacheIDs |-> NoUser]]
  /\ calls = NoCalls

(* The call that returned last, and per user what the Update that returned *)
(* last gave back: the updated user, or nothing when it failed.            *)
Fetched(op, id, err, user) ==
  [op |-> op, in |-> id, err |-> err, user |-> user,
   updated |-> IF op = "Update"
               THEN [last.updated EXCEPT
                       ![id] = IF err = "nil" THEN user ELSE NoUser]
               ELSE last.updated]

(* GetByID, line 39: the cache read.  A hit returns; a miss or a failed    *)
(* read goes on to the store.                                              *)
GetLookup ==
  \E p \in Procs, id \in CacheIDs, fault \in {"none", "cache.Get"} :
    LET hit == CacheGet(redis, id, fault)
        found == hit.err = "nil" /\ hit.user # NoUser
    IN  /\ calls[p] = Idle
        /\ calls' = IF found THEN calls
                    ELSE [calls EXCEPT
                            ![p] = [pc |-> "fetch", op |-> "GetByID", id |-> id]]
        /\ last' = IF found THEN Fetched("GetByID", id, "nil", hit.user)
                   ELSE last
        /\ UNCHANGED <<now, redis, userSessions, users, tokens>>

(* GetByID, line 46: the read of the store.                                *)
GetFetch ==
  \E p \in Procs, fault \in {"none", "db.GetByID"} :
    LET row == GetByID(users, calls[p].id, fault)
    IN  /\ calls[p].pc = "fetch"
        /\ calls' = IF row.err = "nil"
                    THEN [calls EXCEPT
                            ![p] = [pc |-> "populate", op |-> "GetByID",
                                    id |-> calls[p].id, user |-> row.user]]
                    ELSE [calls EXCEPT ![p] = Idle]
        /\ last' = IF row.err = "nil" THEN last
                   ELSE Fetched("GetByID", calls[p].id, row.err, NoUser)
        /\ UNCHANGED <<now, redis, userSessions, users, tokens>>

(* GetByID, lines 52-59: the cache write, whose failure is logged.         *)
GetPopulate ==
  \E p \in Procs, fault \in {"none", "cache.Set"} :
    /\ calls[p].pc = "populate"
    /\ redis' = CacheSet(redis, now, calls[p].user, fault).redis
    /\ calls' = [calls EXCEPT ![p] = Idle]
    /\ last' = Fetched("GetByID", calls[p].id, "nil", calls[p].user)
    /\ UNCHANGED <<now, userSessions, users, tokens>>

(* Update, lines 90-95: the invalidation, whose failure is logged.         *)
UpdateInvalidate ==
  \E p \in Procs, id \in CacheIDs, active \in BOOLEAN,
     fault \in {"none", "cache.Invalidate"} :
    /\ calls[p] = Idle
    /\ redis' = CacheInvalidate(redis, id, fault).redis
    /\ calls' = [calls EXCEPT
                   ![p] = [pc |-> "exec", op |-> "Update", id |-> id,
                           active |-> active]]
    /\ UNCHANGED <<now, userSessions, users, tokens, last>>

(* Update, line 97, first statement of PostgresUserStore.Update.           *)
UpdateWrite ==
  \E p \in Procs, fault \in {"none", "db.Update"} :
    LET res == UpdateExec(users, calls[p].id, calls[p].active, fault)
    IN  /\ calls[p].pc = "exec"
        /\ users' = res.users
        /\ calls' = IF res.err = "nil"
                    THEN [calls EXCEPT
                            ![p] = [pc |-> "reload", op |-> "Update",
                                    id |-> calls[p].id]]
                    ELSE [calls EXCEPT ![p] = Idle]
        /\ last' = IF res.err = "nil" THEN last
                   ELSE Fetched("Update", calls[p].id, res.err, NoUser)
        /\ UNCHANGED <<now, redis, userSessions, tokens>>

(* Update, line 97, second statement: the row is read back.                *)
UpdateReload ==
  \E p \in Procs, fault \in {"none", "db.GetByID"} :
    LET row == GetByID(users, calls[p].id, fault)
    IN  /\ calls[p].pc = "reload"
        /\ calls' = IF row.err = "nil"
                    THEN [calls EXCEPT
                            ![p] = [pc |-> "recache", op |-> "Update",
                                    id |-> calls[p].id, user |-> row.user]]
                    ELSE [calls EXCEPT ![p] = Idle]
        /\ last' = IF row.err = "nil" THEN last
                   ELSE Fetched("Update", calls[p].id, row.err, NoUser)
        /\ UNCHANGED <<now, redis, userSessions, users, tokens>>

(* Update, lines 103-110: the cache write, whose failure is logged.        *)
UpdateRecache ==
  \E p \in Procs, fault \in {"none", "cache.Set"} :
    /\ calls[p].pc = "recache"
    /\ redis' = CacheSet(redis, now, calls[p].user, fault).redis
    /\ calls' = [calls EXCEPT ![p] = Idle]
    /\ last' = Fetched("Update", calls[p].id, "nil", calls[p].user)
    /\ UNCHANGED <<now, userSessions, users, tokens>>

CacheNext ==
  \/ Tick
  \/ GetLookup
  \/ GetFetch
  \/ GetPopulate
  \/ UpdateInvalidate
  \/ UpdateWrite
  \/ UpdateReload
  \/ UpdateRecache

CacheSpec == CacheInit /\ [][CacheNext]_vars

UpdateInFlight(id) ==
  \E p \in Procs : calls[p] # Idle /\ calls[p].op = "Update" /\ calls[p].id = id

(* C31: once an Update of a user has returned successfully and no Update  *)
(* of that user is in progress, a GetByID of the user that starts now      *)
(* returns the updated user, the one the Update returned or the one the    *)
(* store holds, whatever GetByID calls ran concurrently with the Update.   *)
C31_GetAfterUpdateIsFresh ==
  \A id \in CacheIDs :
    last.updated[id] # NoUser /\ ~UpdateInFlight(id)
      => LET got == CachedGetByID(users, redis, now, id, "none")
         IN  got.err = "nil"
               => got.user \in {last.updated[id], UserOf(users[id])}

(* The record of the session is the one a Revoke has written.              *)
Revoked(r, id) ==
  /\ r[sessionKey(id)].present
  /\ jsonUnmarshal(r[sessionKey(id)].data).ok
  /\ ~jsonUnmarshal(r[sessionKey(id)].data).session.Active

(* A Refresh stands between its Get and its SET.                           *)
RefreshInFlight ==
  \E p \in Procs : calls[p].pc = "set" /\ calls[p].op = "Refresh"

(* C32, as stated: once a Revoke has stored the session as revoked, no     *)
(* step, also none of a Refresh that was in progress when the Revoke ran,  *)
(* makes a Get of the session succeed again.                               *)
C32_RevokedStaysRevoked_AsStated ==
  [][Revoked(redis, RaceCreated.session.ID)
       => SessionGet(redis', now', RaceCreated.session.ID, "none").err # "nil"]_vars

(* C32, amended: once a Revoke has stored the session as revoked and no    *)
(* Refresh that read the session earlier is still to write, no step makes  *)
(* a Get of the session succeed again; a Refresh that starts after the     *)
(* Revoke fails in its Get and writes nothing.                             *)
C32_RevokedStaysRevoked ==
  [][Revoked(redis, RaceCreated.session.ID) /\ ~RefreshInFlight
       => /\ SessionGet(redis', now', RaceCreated.session.ID, "none").err # "nil"
          /\ ~RefreshInFlight']_vars

(* A Refresh that started after the Revoke has failed, and the record is   *)
(* still the revoked one.                                                  *)
C32_Witness ==
  /\ Revoked(redis, RaceCreated.session.ID)
  /\ last.op = "Refresh"
  /\ last.err = "ErrSessionInvalid"
  /\ calls = NoCalls

-----------------------------------------------------------------------------
(* Logout of the session while a Refresh or a Revoke of it is in progress. *)

(* The token Login issued together with the session.                       *)
RaceToken ==
  GenerateToken(UserOf(InitUsers[RaceCreated.session.UserID]),
                RaceCreated.session.ID, RaceCreated.session.CreatedAt)

RaceLogout ==
  \E fault \in {"none", "redis.Del"} :
    LET id == RaceCreated.session.ID
        res == AuthLogout(redis, id, fault)
    IN  /\ redis' = res.redis
        /\ last' = Called("Logout", id, res.err, {}, NoToken, NoSession)
        /\ UNCHANGED <<now, userSessions, users, tokens, calls>>

LogoutRaceNext ==
  \/ Tick
  \/ BeginRefresh
  \/ BeginRevoke
  \/ FinishRefresh
  \/ FinishRevoke
  \/ RaceLogout

LogoutRaceSpec == RaceInit /\ [][LogoutRaceNext]_vars

(* Get, ValidateToken and RefreshToken of the session all fail with the    *)
(* store r at time t.                                                      *)
SessionDead(r, t) ==
  /\ SessionGet(r, t, RaceCreated.session.ID, "none").err # "nil"
  /\ AuthValidateToken(r, t, RaceToken, "none").err # "nil"
  /\ AuthRefreshToken(users, r, t, RaceToken, "none").err # "nil"

(* C33: once Logout of the session has returned nil, no step of a Refresh  *)
(* that was in progress makes Get, ValidateToken or RefreshToken of the    *)
(* session succeed: the deleted record is not created again.               *)
C33_LoggedOutStaysDead ==
  [][last.op = "Logout" /\ last.err = "nil" => SessionDead(redis', now')]_vars

(* C34: every session record in the store has its id in the session index *)
(* of the user the record names.                                           *)
C34_StoredSessionsAreIndexed ==
  \A k \in SessionKeys :
    redis[k].present /\ jsonUnmarshal(redis[k].data).ok
      => LET s == jsonUnmarshal(redis[k].data).session
         IN  s.ID \in userSessions[s.UserID]

(* C35: an id that ListForUser removes from the index of a user is the id  *)
(* of a session that is absent, expired, undecodable or inactive; when the *)
(* read of a record fails in the store, the id of a live session stays.    *)
C35_ListPrunesOnlyDeadIds ==
  \A u \in UserIDs, fault \in {"none", "redis.Get"} :
    LET res == SessionListForUser(redis, userSessions, now, u, fault)
    IN  \A id \in userSessions[u] \ res.userSessions[u] :
          SessionGet(redis, now, id, "none").err
            \in {"ErrSessionNotFound", "ErrSessionExpired", "ErrSessionInvalid"}

-----------------------------------------------------------------------------
(* The deprecated v1 login and its token.                                  *)

(* json.Marshal of JWTClaimsV1: the user id goes under "uid", and there is *)
(* no role, no nbf and no session id.                                      *)
claimsV1JSON(c) ==
  [iss |-> c.Issuer, sub |-> c.Subject, iat |-> c.IssuedAt,
   exp |-> c.ExpiresAt, uid |-> c.UserID, email |-> c.Email]

GenerateTokenV1(userID, email, t) ==
  LET payload == claimsV1JSON([Issuer |-> jwtIssuer, Subject |-> userID,
                               IssuedAt |-> t, ExpiresAt |-> t + jwtExpiration,
                               UserID |-> userID, Email |-> email])
  IN  [header |-> "HS256", payload |-> payload,
       sig |-> HMAC(jwtSecret, "HS256", payload)]

(* ENABLE_V1_API, true unless the environment sets it.                     *)
V1Flags == BOOLEAN

AuthLoginV1(db, t, enableV1API, email, password, fault) ==
  LET fail(e) == [err |-> e, token |-> NoToken, users |-> db]
      byEmail == GetByEmail(db, email, fault)
      user == byEmail.user
      stored == GetPasswordHash(db, user.ID, fault)
      checked == CheckPassword(password, stored.hash)
  IN  IF ~enableV1API THEN fail("ErrDeprecatedAPI")
      ELSE IF byEmail.err # "nil" THEN fail("ErrInvalidCredentials")
      ELSE IF stored.err # "nil" THEN fail(stored.err)
      ELSE IF ~checked.valid THEN fail("ErrInvalidCredentials")
      ELSE [err |-> "nil",
            token |-> GenerateTokenV1(user.ID, user.Email, t),
            users |-> UpdateLastLogin(db, user.ID, t, fault)]

LoginV1 ==
  \E email \in Emails, password \in Passwords, enableV1API \in V1Flags,
     fault \in {"none", "db.GetPasswordHash"} :
    LET res == AuthLoginV1(users, now, enableV1API, email, password, fault)
    IN  /\ users' = res.users
        /\ tokens' = IF res.err = "nil" THEN Keep(tokens, res.token) ELSE tokens
        /\ last' = Called("LoginV1",
                          [Email |-> email, Password |-> password,
                           EnableV1API |-> enableV1API],
                          res.err, {}, res.token, NoSession)
        /\ UNCHANGED <<now, redis, userSessions, calls>>

V1Next ==
  \/ Tick
  \/ Login
  \/ LoginV1
  \/ ValidateToken

V1Spec == Init /\ [][V1Next]_vars

(* C36: every token a client can present that ValidateToken accepts       *)
(* carries a session id, and Get of that session succeeds in the same      *)
(* state; a token without a session id, as LoginV1 issues, is not          *)
(* accepted.                                                               *)
C36_AcceptedTokenHasLiveSession ==
  \A token \in ClientTokens :
    LET res == AuthValidateToken(redis, now, token, "none")
    IN  res.err = "nil"
          => /\ res.claims.SessionID # EmptySID
             /\ SessionGet(redis, now, res.claims.SessionID, "none").err = "nil"

(* C37: a login that has just returned a token, by Login or by LoginV1,    *)
(* was a login to an account whose active flag is true.                    *)
C37_NoTokenForInactiveAccount ==
  last.op \in {"Login", "LoginV1"} /\ last.err = "nil"
    => /\ last.token # NoToken
       /\ \A u \in RegisteredUsers(last.in.Email) : users[u].Active

RefreshTokenFaults == {"none", "redis.Get", "redis.Set", "db.GetByID"}

(* The errors of the user load, the step of RefreshToken that follows the  *)
(* extension of the session.                                               *)
UserLoadErrors == {"db error", "ErrNotFound"}

(* C38, as stated: a RefreshToken that returns an error leaves the store   *)
(* as it was: the session's expires_at and TTL are not extended.           *)
C38_FailedRefreshLeavesSession_AsStated ==
  \A token \in ClientTokens, fault \in RefreshTokenFaults :
    LET res == AuthRefreshToken(users, redis, now, token, fault)
    IN  res.err # "nil" => res.redis = redis

(* C38, amended: a RefreshToken that fails because the token is rejected,  *)
(* the session is dead or the write of the session fails leaves the store  *)
(* as it was; one that fails afterwards, because the user cannot be        *)
(* loaded, has already extended the session, and the store is the one      *)
(* SessionStore.Refresh leaves.                                            *)
C38_FailedRefreshLeavesSession ==
  \A token \in ClientTokens, fault \in RefreshTokenFaults :
    LET res == AuthRefreshToken(users, redis, now, token, fault)
        sid == claimsFromJSON(token.payload).SessionID
    IN  /\ (res.err # "nil" /\ res.err \notin UserLoadErrors)
             => res.redis = redis
        /\ res.err \in UserLoadErrors
             => /\ res.token = NoToken
                /\ res.redis = SessionRefresh(redis, now, sid, "none").redis
                /\ res.redis[sessionKey(sid)].data.expires_at = now + sessionTTL

(* A RefreshToken has failed at the user load, and the session it names    *)
(* has the expiry that call gave it, later than the one Create gave.       *)
C38_Witness ==
  /\ last.op = "RefreshToken"
  /\ last.err \in UserLoadErrors
  /\ now > 0
  /\ IsJWT(last.in)
  /\ LET key == sessionKey(claimsFromJSON(last.in.payload).SessionID)
     IN  /\ redis[key].present
         /\ redis[key].data.expires_at = now + sessionTTL

-----------------------------------------------------------------------------
(* ChangePassword of an account while a Login of the same account is in    *)
(* progress: the Login as the three steps of LoginRaceSpec, ChangePassword *)
(* as its read and check of the current hash and its write of the new one. *)

ChangeRaceInit ==
  \E loginPassword \in Passwords, oldPassword \in Passwords,
     newPassword \in Passwords, build \in BcryptBuilds,
     migration \in BOOLEAN :
    /\ now = 0
    /\ redis = [k \in SessionKeys |-> NoKey]
    /\ userSessions = [u \in UserIDs |-> {}]
    /\ users \in {[InitUsers EXCEPT !["u1"] =
                     UserRow("u1", "a@x.com", "customer", TRUE, h)] :
                  h \in {hashMD5("Secr3t!pw"), hashSHA1("Secr3t!pw")}}
    /\ tokens = {}
    /\ last = Called("init", <<>>, "nil", {}, NoToken, NoSession)
    /\ calls = [p \in Procs |->
                  IF p = "p1"
                  THEN [pc |-> "start", op |-> "Login",
                        req |-> RaceRequest(loginPassword),
                        cfg |-> [EnablePasswordMigration |-> migration,
                                 EnableLegacyAuth |-> TRUE, Bcrypt |-> build]]
                  ELSE [pc |-> "check", op |-> "ChangePassword", id |-> "u1",
                        oldPassword |-> oldPassword,
                        newPassword |-> newPassword, build |-> build]]

(* A ChangePassword that has returned.                                     *)
Changed(call, err) ==
  [pc |-> "done", op |-> "ChangePassword", id |-> call.id,
   oldPassword |-> call.oldPassword, newPassword |-> call.newPassword,
   err |-> err]

(* GetPasswordHash, CheckPassword of the old password and HashPassword of  *)
(* the new one.                                                            *)
ChangeVerify ==
  \E p \in Procs, fault \in {"none", "db.GetPasswordHash"} :
    LET call == calls[p]
        currentHash == GetPasswordHash(users, call.id, fault)
        newHash == HashPassword(call.newPassword, saltOf(p), call.build)
        err == IF currentHash.err # "nil" THEN currentHash.err
               ELSE IF ~CheckPassword(call.oldPassword, currentHash.hash).valid
                 THEN "ErrPasswordMismatch"
               ELSE newHash.err
    IN  /\ call.pc = "check"
        /\ calls' = [calls EXCEPT ![p] =
                       IF err # "nil" THEN Changed(call, err)
                       ELSE [pc |-> "write", op |-> "ChangePassword",
                             id |-> call.id, oldPassword |-> call.oldPassword,
                             newPassword |-> call.newPassword,
                             build |-> call.build, newHash |-> newHash.hash]]
        /\ last' = IF err # "nil"
                   THEN Wrote("ChangePassword",
                              [id |-> call.id, oldPassword |-> call.oldPassword,
                               password |-> call.newPassword], err)
                   ELSE last
        /\ UNCHANGED <<now, redis, userSessions, users, tokens>>

(* UpdatePasswordHash, whose error ChangePassword returns.                 *)
ChangeWrite ==
  \E p \in Procs, fault \in {"none", "db.UpdatePasswordHash"} :
    LET call == calls[p]
        err == IF fault = "db.UpdatePasswordHash" THEN "db error" ELSE "nil"
    IN  /\ call.pc = "write"
        /\ users' = UpdatePasswordHash(users, call.id, call.newHash, fault)
        /\ calls' = [calls EXCEPT ![p] = Changed(call, err)]
        /\ last' = Wrote("ChangePassword",
                         [id |-> call.id, oldPassword |-> call.oldPassword,
                          password |-> call.newPassword], err)
        /\ UNCHANGED <<now, redis, userSessions, tokens>>

ChangeRaceNext ==
  \/ LoginVerify
  \/ LoginMigrate
  \/ LoginCreateSession
  \/ ChangeVerify
  \/ ChangeWrite

ChangeRaceSpec == ChangeRaceInit /\ [][ChangeRaceNext]_vars

(* C39: once a ChangePassword from an old to a different new password has  *)
(* returned nil, the stored hash verifies the new password and does not    *)
(* verify the old one, whatever a Login of the account that verified the   *)
(* old password does before or after.                                      *)
C39_ChangedPasswordStays ==
  \A p \in Procs :
    (/\ calls[p].op = "ChangePassword"
     /\ calls[p].pc = "done"
     /\ calls[p].err = "nil"
     /\ calls[p].oldPassword # calls[p].newPassword)
      => LET hash == users[calls[p].id].PasswordHash
         IN  /\ CheckPassword(calls[p].newPassword, hash).valid
             /\ ~CheckPassword(calls[p].oldPassword, hash).valid

-----------------------------------------------------------------------------
(* PostgresUserStore.Create and the ids it gives.  In StoreSpec the users  *)
(* table starts empty and its rows are keyed by the generated id.          *)

userLetters ==
  <<"a", "b", "c", "d", "e", "f", "g", "h", "i", "j", "k", "l", "m",
    "n", "o", "p", "q", "r", "s", "t", "u", "v", "w", "x", "y", "z",
    "0", "1", "2", "3", "4", "5", "6", "7", "8", "9">>

userIDLen == 12

(* b[i] = letters[i % len(letters)] for i = 0 .. n-1.                      *)
randomString(n) ==
  [i \in 1..n |-> userLetters[((i - 1) % Len(userLetters)) + 1]]

generateUserID == <<"u", "s", "e", "r", "-">> \o randomString(userIDLen)

(* The INSERT: users.id is the primary key and users.email is UNIQUE, over *)
(* all rows, the soft-deleted ones included.  The row gets active = true   *)
(* and the column default of password_hash_type; the user returned is the  *)
(* row read back by GetByID.                                               *)
PostgresCreate(db, req, fault) ==
  LET id == generateUserID
      row == [ID |-> id, Email |-> req.Email, Role |-> req.Role,
              Active |-> TRUE, Deleted |-> FALSE, PasswordHash |-> req.Password,
              PasswordHashType |-> "unknown"]
      inserted == [k \in DOMAIN db \cup {id} |-> IF k = id THEN row ELSE db[k]]
      back == GetByID(inserted, id, fault)
  IN  IF fault = "db.Create"
        THEN [err |-> "db error", user |-> NoUser, users |-> db]
      ELSE IF id \in DOMAIN db
        THEN [err |-> "duplicate key: users_pkey", user |-> NoUser, users |-> db]
      ELSE IF \E k \in DOMAIN db : db[k].Email = req.Email
        THEN [err |-> "duplicate key: users_email_key", user |-> NoUser,
              users |-> db]
      ELSE [err |-> back.err, user |-> back.user, users |-> inserted]

(* The soft delete.                                                        *)
PostgresDelete(db, id, fault) ==
  IF fault = "db.Delete" THEN [err |-> "db error", users |-> db]
  ELSE IF id \notin DOMAIN db \/ db[id].Deleted
    THEN [err |-> "ErrNotFound", users |-> db]
  ELSE [err |-> "nil",
        users |-> [db EXCEPT ![id].Deleted = TRUE, ![id].Active = FALSE]]

(* An id no Create has given.                                              *)
OtherUserID == <<"u", "s", "e", "r", "-", "x">>

StoreIDs == {generateUserID, OtherUserID}

StoreHashes ==
  {bcryptGenerate(password, "salt1", "rejects").hash : password \in Passwords}

StoreRoles == {"customer", "admin"}

CreateRequest(email, role, hash) ==
  [Email |-> email, Role |-> role, Password |-> hash]

StoreInit ==
  /\ now = 0
  /\ redis = [k \in SessionKeys |-> NoKey]
  /\ userSessions = [u \in UserIDs |-> {}]
  /\ users = [k \in {} |-> NoUser]
  /\ tokens = {}
  /\ last = [op |-> "init", in |-> "", err |-> "nil", user |-> NoUser]
  /\ calls = NoCalls

StoreCreate ==
  \E email \in Emails, role \in StoreRoles, hash \in StoreHashes,
     fault \in {"none", "db.Create", "db.GetByID"} :
    LET res == PostgresCreate(users, CreateRequest(email, role, hash), fault)
    IN  /\ users' = res.users
        /\ last' = [op |-> "Create", in |-> email, err |-> res.err,
                    user |-> res.user]
        /\ UNCHANGED <<now, redis, userSessions, tokens, calls>>

StoreGetByID ==
  \E id \in StoreIDs, fault \in {"none", "db.GetByID"} :
    LET res == GetByID(users, id, fault)
    IN  /\ last' = [op |-> "GetByID", in |-> id, err |-> res.err,
                    user |-> res.user]
        /\ UNCHANGED <<now, redis, userSessions, users, tokens, calls>>

StoreDelete ==
  \E id \in StoreIDs, fault \in {"none", "db.Delete"} :
    LET res == PostgresDelete(users, id, fault)
    IN  /\ users' = res.users
        /\ last' = [op |-> "Delete", in |-> id, err |-> res.err,
                    user |-> NoUser]
        /\ UNCHANGED <<now, redis, userSessions, tokens, calls>>

StoreNext ==
  \/ StoreCreate
  \/ StoreGetByID
  \/ StoreDelete

StoreSpec == StoreInit /\ [][StoreNext]_vars

(* C40: two Create calls in a row, with different emails that no row of    *)
(* the table has, both succeed and return users with different ids.        *)
C40_CreatedUsersHaveDistinctIds ==
  \A email1 \in Emails, email2 \in Emails, hash \in StoreHashes :
    (/\ email1 # email2
     /\ \A k \in DOMAIN users : users[k].Email \notin {email1, email2})
      => LET first == PostgresCreate(users,
                                     CreateRequest(email1, "customer", hash),
                                     "none")
             second == PostgresCreate(first.users,
                                      CreateRequest(email2, "customer", hash),
                                      "none")
         IN  /\ first.err = "nil"
             /\ second.err = "nil"
             /\ first.user.ID # second.user.ID

====
